---- MODULE Spec2Model ----
(***************************************************************************)
(* Sketch-to-diagram pipeline of patentflow: the vectorization service     *)
(* (backend/app/services/vectorization_service.py), the diagram endpoints  *)
(* (backend/app/routers/diagram_generation.py) and the pipeline            *)
(* orchestrator, detector and annotator they call.                         *)
(***************************************************************************)
EXTENDS Integers, Sequences, FiniteSets, TLC

(***************************************************************************)
(* Bounds of the model.                                                    *)
(***************************************************************************)
\* largest number of pixels (width * height) of an input image
MaxPixels == 2
\* largest number of curves the tracer returns for one bitmap
MaxCurves == 2
\* largest number of segments of one traced curve
MaxSegments == 2

(***************************************************************************)
(* Program constants.                                                      *)
(***************************************************************************)
\* PIL's value of a white pixel (the lambda of point(), 255 if x > threshold)
White == 255
\* bitmap_to_svg's default threshold
DefaultThreshold == 128

NoValue == [kind |-> "none"]

VARIABLES
    PYPOTRACE_AVAILABLE,  \* module flag set by the import at module load
    default_params,       \* VectorizationService.default_params
    pc,                   \* position of the bitmap_to_svg call
    args,                 \* arguments of the call: image, threshold, invert
    img_bw,               \* the binarized image (local of both backends)
    tracer_input,         \* what the tracer was handed: bitmap_array or input.pbm
    tracer_request,       \* the tracing parameters handed to the tracer
    tmpdir,               \* the TemporaryDirectory: "none", "exists", "removed"
    files,                \* names of the files in tmpdir
    child,                \* the potrace child process
    result,               \* the value bitmap_to_svg returned
    exc,                  \* the exception bitmap_to_svg raised, or "none"
    request,              \* the HTTP request being handled
    kwargs,               \* the arguments the handler gave the pipeline entry point
    pstate,               \* the orchestrator's state for this invocation
    hist,                 \* the states this invocation has visited, in order
    failure,              \* the error that ended the run in Failed
    sd_called,            \* the image-generation backends called in this run
    diagram_image,        \* the raster of the Raster Synthesizer
    svg,                  \* the SVG of the run so far
    components,           \* the Detector's ordered component list
    labels,               \* the labels placed so far
    search,               \* the ring search of the label being placed
    placement_config,     \* the Annotator's configured distances
    pipeline_result,      \* what the pipeline entry point returned
    response,             \* the HTTP response of the handler
    opt_in,               \* the document a caller of optimize_svg started from
    opt_scour,            \* whether "import scour.scour" succeeds for that caller
    opt_out,              \* what the successive optimize_svg calls returned
    calls,                \* the bitmap_to_svg calls of concurrent requests
    tmpfs,                \* the temporary directories of those calls, by name
    web,                  \* a request to an endpoint that depends on get_db
    dblog,                \* the calls made on that request's session, in order
    svc_calls,            \* the service calls the handler made, in order
    handled,              \* how the handler ended: returned or raised
    propagated,           \* the exception in flight in get_db, then leaving it
    traced,               \* a Path as bmp.trace returns it: the list of its curves
    path_svg              \* what _path_to_svg made of it

vecVars == <<PYPOTRACE_AVAILABLE, default_params, pc, args, img_bw, tracer_input,
             tracer_request, tmpdir, files, child, result, exc>>

pipeVars == <<request, kwargs, pstate, hist, failure, sd_called, diagram_image, svg,
              components, labels, search, placement_config, pipeline_result, response>>

optVars == <<opt_in, opt_scour, opt_out>>

concVars == <<calls, tmpfs>>

apiVars == <<web, dblog, svc_calls, handled, propagated>>

pathVars == <<traced, path_svg>>

auxVars == <<optVars, concVars, apiVars, pathVars>>

vars == <<vecVars, pipeVars, auxVars>>

(***************************************************************************)
(* Inputs: images, thresholds.                                             *)
(***************************************************************************)
\* 8-bit luminances around the thresholds
Lums == {0, DefaultThreshold, White}
Thresholds == {DefaultThreshold, White}

Dims(n) == {d \in (1..n) \X (1..n) : d[1] * d[2] <= n}

\* a decodable image: its size and its pixels' luminance after convert('L'),
\* row by row; an undecodable one has no size
Images(n) ==
    {[ok |-> FALSE, width |-> 0, height |-> 0, lum |-> <<>>]} \cup
    UNION {{[ok |-> TRUE, width |-> d[1], height |-> d[2], lum |-> l] :
               l \in [1..(d[1] * d[2]) -> Lums]} : d \in Dims(n)}

(***************************************************************************)
(* Binarization, lines 83-89 and 121-126.                                  *)
(***************************************************************************)
\* (a slip: x >= threshold)
PointThresholdInclusive(lum, threshold) ==
    [p \in DOMAIN lum |-> IF lum[p] >= threshold THEN White ELSE 0]

\* img_gray.point(lambda x: 255 if x > threshold else 0, '1')
PointThreshold(lum, threshold) ==
    [p \in DOMAIN lum |-> IF lum[p] > threshold THEN White ELSE 0]

\* img_bw.point(lambda x: 255 - x)
PointInvert(bw) == [p \in DOMAIN bw |-> White - bw[p]]

Binarize(lum, threshold, invert) ==
    IF invert THEN PointInvert(PointThreshold(lum, threshold))
    ELSE PointThreshold(lum, threshold)

\* np.array(img_bw, dtype=bool): True where the pixel is not 0
NumpyBool(bw) == [p \in DOMAIN bw |-> bw[p] # 0]

\* img_bw.save("input.pbm"): PIL writes a mode '1' image as P4 with raw mode
\* "1;I", so a pixel of value 0 becomes bit 1 (black) and 255 becomes bit 0
SavePbm(bw) == [p \in DOMAIN bw |-> IF bw[p] = 0 THEN 1 ELSE 0]

\* the pixels the tracer fills: True in a bool array, bit 1 in a PBM
Foreground(input) ==
    IF input.kind = "bitmap_array" THEN {p \in DOMAIN input.data : input.data[p]}
    ELSE IF input.kind = "pbm" THEN {p \in DOMAIN input.data : input.data[p] = 1}
    ELSE {}

(***************************************************************************)
(* Traced paths and their SVG, lines 177-226.                              *)
(***************************************************************************)
SeqsUpTo(S, n) == UNION {[1..k -> S] : k \in 0..n}

\* a traced curve is its segments; a segment is a corner or a Bezier curve
Segments == [is_corner : BOOLEAN]
Curves(maxSeg) == SeqsUpTo(Segments, maxSeg)
Paths(maxCurves, maxSeg) == SeqsUpTo(Curves(maxSeg), maxCurves)

\* the tracer returns no curve for a bitmap without foreground
TracedPaths(input, paths) ==
    IF Foreground(input) = {} THEN {<<>>} ELSE paths

\* the commands of one segment (lines 204-215); points are named by segment
SegmentData(segment, i) ==
    IF segment.is_corner
    THEN << [op |-> "L", pts |-> << <<i, "c">> >>],
            [op |-> "L", pts |-> << <<i, "end_point">> >>] >>
    ELSE << [op |-> "C", pts |-> << <<i, "c1">>, <<i, "c2">>, <<i, "end_point">> >>] >>

RECURSIVE SegmentsData(_, _)
SegmentsData(segments, i) ==
    IF i > Len(segments) THEN <<>>
    ELSE SegmentData(segments[i], i) \o SegmentsData(segments, i + 1)

\* (a slip: the path is left open)
PathDataOpen(curve) ==
    << [op |-> "M", pts |-> << <<0, "start_point">> >>] >>
    \o SegmentsData(curve, 1)

\* (a slip: one representation for the whole path, taken from its first segment)
PathDataGlobalSwitch(curve) ==
    << [op |-> "M", pts |-> << <<0, "start_point">> >>] >>
    \o SegmentsData([k \in DOMAIN curve |-> [curve[k] EXCEPT !.is_corner = curve[1].is_corner]], 1)
    \o << [op |-> "Z", pts |-> <<>>] >>

\* path_data of one curve (lines 198-217)
PathData(curve) ==
    << [op |-> "M", pts |-> << <<0, "start_point">> >>] >>
    \o SegmentsData(curve, 1)
    \o << [op |-> "Z", pts |-> <<>>] >>

PathElem(curve) ==
    [tag |-> "path", d |-> PathData(curve), fill |-> "black", stroke |-> "none"]

SvgRoot(markup, width, height, children) ==
    [kind |-> "svg", markup |-> markup, width |-> width, height |-> height,
     viewBox |-> <<0, 0, width, height>>, children |-> children]

ElemChildren(e) == IF "children" \in DOMAIN e THEN e.children ELSE <<>>

\* the elements below a root, in document order
RECURSIVE Elems(_)
Elems(children) ==
    IF children = <<>> THEN <<>>
    ELSE <<Head(children)>> \o Elems(ElemChildren(Head(children)))
                            \o Elems(Tail(children))

_path_to_svg(path, width, height) ==
    SvgRoot("etree", width, height, [k \in DOMAIN path |-> PathElem(path[k])])

_placeholder_svg(width, height) == SvgRoot("literal", width, height, <<>>)

\* the commands potrace writes for one segment: relative, lower case
PotraceSegmentData(segment, i) ==
    IF segment.is_corner
    THEN << [op |-> "l", pts |-> << <<i, "c">> >>],
            [op |-> "l", pts |-> << <<i, "end_point">> >>] >>
    ELSE << [op |-> "c", pts |-> << <<i, "c1">>, <<i, "c2">>, <<i, "end_point">> >>] >>

RECURSIVE PotraceSegmentsData(_, _)
PotraceSegmentsData(segments, i) ==
    IF i > Len(segments) THEN <<>>
    ELSE PotraceSegmentData(segments[i], i) \o PotraceSegmentsData(segments, i + 1)

PotracePathElem(curve) ==
    [tag |-> "path",
     d |-> << [op |-> "M", pts |-> << <<0, "start_point">> >>] >>
           \o PotraceSegmentsData(curve, 1)
           \o << [op |-> "z", pts |-> <<>>] >>]

\* the SVG the potrace binary (--svg) writes to output.svg for the curves it
\* traced: sizes in points, a metadata element, and the paths, which have no
\* fill or stroke of their own, inside a g element that carries both
PotraceSvg(path, width, height) ==
    [kind |-> "svg", markup |-> "potrace",
     width |-> width, height |-> height, unit |-> "pt",
     viewBox |-> <<0, 0, width, height>>,
     children |->
        << [tag |-> "metadata", text |-> <<"Created by potrace">>],
           [tag |-> "g", transform |-> <<"translate", 0, height, "scale", 1, -1>>,
            fill |-> "#000000", stroke |-> "none",
            children |-> [k \in DOMAIN path |-> PotracePathElem(path[k])]] >>]

(***************************************************************************)
(* The vectorization service: bitmap_to_svg and its two backends.          *)
(***************************************************************************)
\* VectorizationService.__init__ (floats are kept as their text)
DefaultParams ==
    [turnpolicy |-> "minority", turdsize |-> 2, alphamax |-> "1.0",
     opticurve |-> TRUE, opttolerance |-> "0.2"]

\* the keyword arguments of bmp.trace (lines 92-98)
NativeRequest(params) ==
    [turdsize |-> params.turdsize, turnpolicy |-> params.turnpolicy,
     alphamax |-> params.alphamax, opticurve |-> params.opticurve,
     opttolerance |-> params.opttolerance]

\* the options of the potrace command line (lines 136-147)
CliRequest(params) ==
    [turdsize |-> params.turdsize, alphamax |-> params.alphamax,
     opttolerance |-> params.opttolerance, longcurve |-> ~params.opticurve]

VecInit ==
    /\ PYPOTRACE_AVAILABLE \in BOOLEAN
    /\ default_params = DefaultParams
    /\ pc = "idle"
    /\ args = NoValue
    /\ img_bw = <<>>
    /\ tracer_input = NoValue
    /\ tracer_request = NoValue
    /\ tmpdir = "none"
    /\ files = {}
    /\ child = "none"
    /\ result = NoValue
    /\ exc = "none"

VecIdle == pc \in {"idle", "returned", "raised"}

\* a caller invokes vectorizer.bitmap_to_svg(image_bytes, threshold, invert)
bitmap_to_svg(image, threshold, invert) ==
    /\ VecIdle
    /\ args' = [kind |-> "call", image |-> image, threshold |-> threshold,
                invert |-> invert]
    /\ pc' = "open"
    /\ img_bw' = <<>>
    /\ tracer_input' = NoValue
    /\ tracer_request' = NoValue
    /\ tmpdir' = "none"
    /\ files' = {}
    /\ child' = "none"
    /\ result' = NoValue
    /\ exc' = "none"
    /\ UNCHANGED <<PYPOTRACE_AVAILABLE, default_params>>

\* the call is over: its locals are gone, the caller keeps the image's size
Forget(a) ==
    [a EXCEPT !.image = [ok |-> a.image.ok, width |-> a.image.width,
                         height |-> a.image.height, lum |-> <<>>]]

\* (a slip: mkdtemp without cleanup)
TmpDirLeaked == "exists"

\* the state of the temporary directory once its with-block is left (line 128)
TmpDirAfterExit == "removed"

\* the child once subprocess.run gave up on it: killed and waited for (line 150)
ChildAfterTimeout == "killed"

Return(value) ==
    /\ pc' = "returned"
    /\ result' = value
    /\ exc' = "none"
    /\ img_bw' = <<>>
    /\ tracer_input' = NoValue
    /\ args' = Forget(args)

Raise(e) ==
    /\ pc' = "raised"
    /\ exc' = e
    /\ result' = NoValue
    /\ img_bw' = <<>>
    /\ tracer_input' = NoValue
    /\ args' = Forget(args)

\* leaving the with-block of the temporary directory, by return or by raise
ExitTmpDir ==
    /\ tmpdir' = TmpDirAfterExit
    /\ files' = IF TmpDirAfterExit = "removed" THEN {} ELSE files

\* (a slip: Image.open inside the handler that returns the placeholder)
OpenImageLenient ==
    /\ pc = "open"
    /\ IF ~args.image.ok
       THEN /\ Return(_placeholder_svg(args.image.width, args.image.height))
       ELSE /\ img_bw' = Binarize(args.image.lum, args.threshold, args.invert)
            /\ pc' = IF PYPOTRACE_AVAILABLE THEN "native" ELSE "cli"
            /\ UNCHANGED <<args, result, exc, tracer_input>>
    /\ UNCHANGED <<PYPOTRACE_AVAILABLE, default_params, tracer_request, tmpdir,
                   files, child>>

\* Image.open, convert('L') and the two point() calls: lines 80-87, 118-126
OpenImage ==
    /\ pc = "open"
    /\ IF ~args.image.ok
       THEN /\ Raise("UnidentifiedImageError")
       ELSE /\ img_bw' = Binarize(args.image.lum, args.threshold, args.invert)
            /\ pc' = IF PYPOTRACE_AVAILABLE THEN "native" ELSE "cli"
            /\ UNCHANGED <<args, result, exc, tracer_input>>
    /\ UNCHANGED <<PYPOTRACE_AVAILABLE, default_params, tracer_request, tmpdir,
                   files, child>>

\* _vectorize_with_pypotrace, lines 89-91: the bool array is made into a Bitmap
NativeBitmap ==
    /\ pc = "native"
    /\ tracer_input' = [kind |-> "bitmap_array", data |-> NumpyBool(img_bw)]
    /\ pc' = "trace"
    /\ UNCHANGED <<PYPOTRACE_AVAILABLE, default_params, args, img_bw, tracer_request,
                   tmpdir, files, child, result, exc>>

\* (a slip: a failing native tracer falls back to the command-line tracer)
NativeTraceFallback(paths) ==
    /\ pc = "trace"
    /\ tracer_request' = NativeRequest(default_params)
    /\ \/ /\ pc' = "cli"
          /\ tracer_input' = NoValue
          /\ UNCHANGED <<args, img_bw, result, exc>>
       \/ \E path \in TracedPaths(tracer_input, paths) :
             Return(_path_to_svg(path, args.image.width, args.image.height))
    /\ UNCHANGED <<PYPOTRACE_AVAILABLE, default_params, tmpdir, files, child>>

\* lines 92-102: bmp.trace and _path_to_svg, with no handler around the tracer
NativeTrace(paths) ==
    /\ pc = "trace"
    /\ tracer_request' = NativeRequest(default_params)
    /\ \/ Raise("TracerError")
       \/ \E path \in TracedPaths(tracer_input, paths) :
             Return(_path_to_svg(path, args.image.width, args.image.height))
    /\ UNCHANGED <<PYPOTRACE_AVAILABLE, default_params, tmpdir, files, child>>

\* _vectorize_with_cli, lines 128-133: the directory is made and input.pbm saved
CliSave ==
    /\ pc = "cli"
    /\ \/ /\ tmpdir' = "exists"
          /\ files' = {"input.pbm"}
          /\ tracer_input' = [kind |-> "pbm", data |-> SavePbm(img_bw)]
          /\ pc' = "run"
          /\ UNCHANGED <<args, img_bw, result, exc>>
       \/ /\ Raise("OSError")
          /\ ExitTmpDir
    /\ UNCHANGED <<PYPOTRACE_AVAILABLE, default_params, tracer_request, child>>

\* lines 135-159: the command is built and subprocess.run starts the child
CliRun ==
    /\ pc = "run"
    /\ tracer_request' = CliRequest(default_params)
    /\ \/ /\ child' = "running"
          /\ pc' = "wait"
          /\ UNCHANGED <<args, img_bw, result, exc, tmpdir, files, tracer_input>>
       \/ \* FileNotFoundError: no potrace binary
          /\ Return(_placeholder_svg(args.image.width, args.image.height))
          /\ ExitTmpDir
          /\ UNCHANGED child
    /\ UNCHANGED <<PYPOTRACE_AVAILABLE, default_params>>

\* the child exits with status 0 within the timeout, having written output.svg
CliChildDone ==
    /\ pc = "wait"
    /\ child = "running"
    /\ files' = files \cup {"output.svg"}
    /\ child' = "exited"
    /\ pc' = "read"
    /\ UNCHANGED <<PYPOTRACE_AVAILABLE, default_params, args, img_bw, tracer_input,
                   tracer_request, tmpdir, result, exc>>

\* (a slip: check=False, the exit status is ignored)
CliChildFailedUnchecked ==
    /\ pc = "wait"
    /\ child = "running"
    /\ child' = "failed"
    /\ pc' = "read"
    /\ UNCHANGED <<PYPOTRACE_AVAILABLE, default_params, args, img_bw, tracer_input,
                   tracer_request, tmpdir, files, result, exc>>

\* lines 160-162: the child exits non-zero, check=True raises CalledProcessError
CliChildFailed ==
    /\ pc = "wait"
    /\ child = "running"
    /\ child' = "failed"
    /\ Return(_placeholder_svg(args.image.width, args.image.height))
    /\ ExitTmpDir
    /\ UNCHANGED <<PYPOTRACE_AVAILABLE, default_params, tracer_request>>

\* (a slip: timeout=None, subprocess.run waits for as long as the child runs)
CliTimeoutNone ==
    /\ pc = "wait"
    /\ child = "running"
    /\ UNCHANGED vecVars

\* lines 163-165: 60 s pass, subprocess.run kills the child and raises
CliTimeout ==
    /\ pc = "wait"
    /\ child = "running"
    /\ child' = ChildAfterTimeout
    /\ Return(_placeholder_svg(args.image.width, args.image.height))
    /\ ExitTmpDir
    /\ UNCHANGED <<PYPOTRACE_AVAILABLE, default_params, tracer_request>>

\* lines 167-171: output.svg, which holds what potrace traced in input.pbm, is
\* read inside the with-block, with no handler
CliRead(paths) ==
    /\ pc = "read"
    /\ \/ \E path \in TracedPaths(tracer_input, paths) :
             Return(PotraceSvg(path, args.image.width, args.image.height))
       \/ Raise("OSError")
    /\ ExitTmpDir
    /\ UNCHANGED <<PYPOTRACE_AVAILABLE, default_params, tracer_request, child>>

\* the caller has taken the result or the exception: the service is idle again
VecCallOver ==
    /\ pc \in {"returned", "raised"}
    /\ pc' = "idle"
    /\ args' = NoValue
    /\ tracer_input' = NoValue
    /\ tracer_request' = NoValue
    /\ tmpdir' = "none"
    /\ files' = {}
    /\ child' = "none"
    /\ result' = NoValue
    /\ exc' = "none"
    /\ UNCHANGED <<PYPOTRACE_AVAILABLE, default_params, img_bw>>

(***************************************************************************)
(* SVG optimization, lines 228-263: the document is re-serialized with     *)
(* indentation; elements and attributes are kept.                          *)
(***************************************************************************)
\* text and tail strings are sequences of pieces: "t" is a piece that is not
\* whitespace, the others (" ", "\n", "  ") are; None is the empty sequence
IsBlank(str) == \A k \in DOMAIN str : str[k] # "t"

StrOf(e, key) == IF key \in DOMAIN e THEN e[key] ELSE <<>>

\* an element with its text or tail set; an empty string is no field at all
SetStr(e, key, str) ==
    IF str = <<>>
    THEN [x \in DOMAIN e \ {key} |-> e[x]]
    ELSE [x \in DOMAIN e \cup {key} |-> IF x = key THEN str ELSE e[x]]

\* "\n" + "  " * level, line 267
IndentString(level) == <<"\n">> \o [k \in 1..level |-> "  "]

\* (a slip: text is overwritten whether it is whitespace or not)
RECURSIVE _indent_xml_overwrite(_, _)
_indent_xml_overwrite(elem, level) ==
    LET indent == IndentString(level)
        kids == ElemChildren(elem)
    IN  IF kids # <<>>
        THEN LET e1 == SetStr(elem, "text", indent \o <<"  ">>)
                 e2 == SetStr(e1, "tail", indent)
                 ks == [k \in DOMAIN kids |-> _indent_xml_overwrite(kids[k], level + 1)]
                 n  == Len(ks)
             IN  [e2 EXCEPT !.children = [ks EXCEPT ![n] = SetStr(ks[n], "tail", indent)]]
        ELSE IF level # 0 THEN SetStr(elem, "tail", indent) ELSE elem

\* (a slip: the indentation is added to the whitespace already there)
RECURSIVE _indent_xml_append(_, _)
_indent_xml_append(elem, level) ==
    LET indent == IndentString(level)
        kids == ElemChildren(elem)
        Add(e, key, str) ==
            IF IsBlank(StrOf(e, key)) THEN SetStr(e, key, StrOf(e, key) \o str) ELSE e
    IN  IF kids # <<>>
        THEN LET e1 == Add(elem, "text", indent \o <<"  ">>)
                 e2 == Add(e1, "tail", indent)
                 ks == [k \in DOMAIN kids |-> _indent_xml_append(kids[k], level + 1)]
                 n  == Len(ks)
             IN  [e2 EXCEPT !.children = [ks EXCEPT ![n] = Add(ks[n], "tail", indent)]]
        ELSE IF level # 0 THEN Add(elem, "tail", indent) ELSE elem

\* lines 265-279; the last child's tail is set again after the loop
RECURSIVE _indent_xml(_, _)
_indent_xml(elem, level) ==
    LET indent == IndentString(level)
        kids == ElemChildren(elem)
        Fill(e, key, str) == IF IsBlank(StrOf(e, key)) THEN SetStr(e, key, str) ELSE e
    IN  IF kids # <<>>
        THEN LET e1 == Fill(elem, "text", indent \o <<"  ">>)
                 e2 == Fill(e1, "tail", indent)
                 ks == [k \in DOMAIN kids |-> _indent_xml(kids[k], level + 1)]
                 n  == Len(ks)
             IN  [e2 EXCEPT !.children = [ks EXCEPT ![n] = Fill(ks[n], "tail", indent)]]
        ELSE IF level # 0 THEN Fill(elem, "tail", indent) ELSE elem

\* ET.fromstring, line 256: the root of the document; what follows the root's
\* end tag is not part of the tree, and comments are not kept (so the loop of
\* lines 258-260 finds none)
ET_fromstring(svg_content) == SetStr(svg_content, "tail", <<>>)

\* ET.tostring(root, encoding='unicode'), line 263: the element and its tail
ET_tostring(root, markup) == [root EXCEPT !.markup = markup]

\* lines 254-263
_basic_svg_optimization(svg_content) ==
    ET_tostring(_indent_xml(ET_fromstring(svg_content), 0), "indented")

\* the elements scour drops with remove_metadata and
\* remove_descriptive_elements, lines 239-244
ScourDropped == {"metadata", "title", "desc"}

RECURSIVE ScourElems(_)
ScourElems(children) ==
    IF children = <<>> THEN <<>>
    ELSE LET e == Head(children)
             kept == [x \in DOMAIN e \ {"text", "tail", "children"} |-> e[x]]
             txt == IF IsBlank(StrOf(e, "text")) THEN kept
                    ELSE SetStr(kept, "text", e.text)
             str == IF IsBlank(StrOf(e, "tail")) THEN txt
                    ELSE SetStr(txt, "tail", e.tail)
         IN  (IF e.tag \in ScourDropped THEN <<>>
              ELSE IF "children" \in DOMAIN e
              THEN << [x \in DOMAIN str \cup {"children"} |->
                          IF x = "children" THEN ScourElems(e.children) ELSE str[x]] >>
              ELSE <<str>>)
             \o ScourElems(Tail(children))

\* scour.scour.scourString with the options of lines 237-244: metadata and
\* descriptive elements are dropped and the document is written with scour's
\* own newlines and indentation
ScourString(svg_content) ==
    [ET_fromstring(svg_content) EXCEPT !.markup = "scour",
                                        !.children = ScourElems(svg_content.children)]

\* lines 228-252: scour if it can be imported, the built-in optimizer if not
optimize_svg(svg_content, scour_importable) ==
    IF scour_importable THEN ScourString(svg_content)
    ELSE _basic_svg_optimization(svg_content)

(***************************************************************************)
(* Component Detector (spec 4.3): regions in raster-scan order.            *)
(***************************************************************************)
\* largest number of components the Detector returns
MaxComponents == 2

\* the regions a reference raster may hold, as bounding boxes
Boxes ==
    { [x0 |-> 0, y0 |-> 0, x1 |-> 4, y1 |-> 4],
      [x0 |-> 6, y0 |-> 0, x1 |-> 8, y1 |-> 2],
      [x0 |-> 1, y0 |-> 1, x1 |-> 3, y1 |-> 3],
      [x0 |-> 0, y0 |-> 6, x1 |-> 2, y1 |-> 8] }

\* what a backend finds: distinct regions, in the order it found them
FoundLists(n) ==
    {f \in SeqsUpTo(Boxes, n) : \A i, j \in DOMAIN f : i # j => f[i] # f[j]}

\* top-to-bottom by topmost boundary pixel, left-to-right as tie-break
RasterBefore(a, b) == a.y0 < b.y0 \/ (a.y0 = b.y0 /\ a.x0 < b.x0)

\* (a slip: the list is returned as the backend found it)
DetectComponentsAsFound(found) ==
    [i \in DOMAIN found |-> [id |-> i, box |-> found[i]]]

\* the ordered component list: ids are the positions in raster order
DetectComponents(found) ==
    LET sorted == SortSeq(found, RasterBefore)
    IN  [i \in DOMAIN sorted |-> [id |-> i, box |-> sorted[i]]]

(***************************************************************************)
(* Annotator (spec 4.4): numbering, anchors, ring search, merge.           *)
(***************************************************************************)
\* the configured distances: clearance of the default anchor, minimum
\* separation of two anchors, the ring search's step and largest radius
PlacementConfigs ==
    { [center |-> <<4, 4>>, clearance |-> 3, min_separation |-> m,
       ring_step |-> 1, max_search_radius |-> 2] : m \in {2, 3} }

\* first component -> start number, next -> start + increment, ...
LabelNumber(i, start_number, number_increment) ==
    start_number + (i - 1) * number_increment

Centroid(b) == << (b.x0 + b.x1) \div 2, (b.y0 + b.y1) \div 2 >>

Sgn(n) == IF n > 0 THEN 1 ELSE IF n < 0 THEN -1 ELSE 0

\* the centroid pushed outward, away from the diagram's center
DefaultAnchor(b, cfg) ==
    LET c == Centroid(b)
    IN  << c[1] + cfg.clearance * Sgn(c[1] - cfg.center[1]),
           c[2] + cfg.clearance * Sgn(c[2] - cfg.center[2]) >>

Dist2(a, b) == (a[1] - b[1]) * (a[1] - b[1]) + (a[2] - b[2]) * (a[2] - b[2])

\* the candidate offsets of one ring, in the order they are tried
RingOffsets == << <<1, 0>>, <<0, 1>>, <<-1, 0>>, <<0, -1>> >>

FirstSearch == [radius |-> 0, k |-> 0]

Candidate(orig, s) ==
    IF s.radius = 0 THEN orig
    ELSE << orig[1] + s.radius * RingOffsets[s.k][1],
            orig[2] + s.radius * RingOffsets[s.k][2] >>

NextSearch(s, cfg) ==
    IF s.radius = 0 THEN [radius |-> cfg.ring_step, k |-> 1]
    ELSE IF s.k < Len(RingOffsets) THEN [s EXCEPT !.k = s.k + 1]
    ELSE [radius |-> s.radius + cfg.ring_step, k |-> 1]

\* the candidate after s lies beyond the maximum search radius
Exhausted(s, cfg) == NextSearch(s, cfg).radius > cfg.max_search_radius

\* (a slip: no overlap check)
ClearAlways(c, placed, cfg) == TRUE

\* clear of all previously placed labels
Clear(c, placed, cfg) ==
    \A j \in DOMAIN placed :
        Dist2(c, placed[j].anchor) >= cfg.min_separation * cfg.min_separation

Clamp(v, lo, hi) == IF v < lo THEN lo ELSE IF v > hi THEN hi ELSE v

\* the nearest point of the box's boundary
NearestOnBox(a, b) ==
    LET cx == Clamp(a[1], b.x0, b.x1)
        cy == Clamp(a[2], b.y0, b.y1)
        inside == b.x0 < a[1] /\ a[1] < b.x1 /\ b.y0 < a[2] /\ a[2] < b.y1
        dl == a[1] - b.x0
        dr == b.x1 - a[1]
        dt == a[2] - b.y0
        db == b.y1 - a[2]
    IN  IF ~inside THEN <<cx, cy>>
        ELSE IF dl <= dr /\ dl <= dt /\ dl <= db THEN <<b.x0, a[2]>>
        ELSE IF dr <= dt /\ dr <= db THEN <<b.x1, a[2]>>
        ELSE IF dt <= db THEN <<a[1], b.y0>>
        ELSE <<a[1], b.y1>>

Label(i, comp, anchor, penalized, kw) ==
    [number |-> LabelNumber(i, kw.start_number, kw.number_increment),
     component |-> comp.id, anchor |-> anchor, penalized |-> penalized,
     leader |-> IF kw.add_leader_lines
                THEN <<anchor, NearestOnBox(anchor, comp.box)>> ELSE <<>>]

\* the elements appended for one label: its text, then its leader line
LabelElems(l) ==
    << [tag |-> "text", number |-> l.number, at |-> l.anchor] >>
    \o (IF l.leader = <<>> THEN <<>>
        ELSE << [tag |-> "path", class |-> "leader",
                 d |-> << [op |-> "M", pts |-> <<l.leader[1]>>],
                          [op |-> "L", pts |-> <<l.leader[2]>>] >>,
                 fill |-> "none", stroke |-> "black"] >>)

RECURSIVE AllLabelElems(_, _)
AllLabelElems(ls, i) ==
    IF i > Len(ls) THEN <<>> ELSE LabelElems(ls[i]) \o AllLabelElems(ls, i + 1)

\* (a slip: the tree is rebuilt from the labels)
MergeLabelsOnly(svg_content, ls) ==
    [svg_content EXCEPT !.children = AllLabelElems(ls, 1)]

\* labels and leader lines are appended to the input SVG's element tree
MergeLabels(svg_content, ls) ==
    [svg_content EXCEPT !.children = svg_content.children \o AllLabelElems(ls, 1)]

Penalties(ls) == Cardinality({i \in DOMAIN ls : ls[i].penalized})

(***************************************************************************)
(* Requests of the three endpoints of routers/diagram_generation.py.       *)
(***************************************************************************)
\* Settings.AUTO_LABEL_START_NUMBER, Settings.AUTO_LABEL_INCREMENT
AUTO_LABEL_START_NUMBER == 10
AUTO_LABEL_INCREMENT == 10

\* largest number of curves traced for an image that goes through the endpoints
MaxRequestCurves == 1

\* the images that go through the endpoints have one pixel, and the curves
\* traced for them at most one segment
RequestImages == Images(1)
RequestPaths == Paths(MaxRequestCurves, 1)

NoRequest == [endpoint |-> "none"]
NoCall == [entry |-> "none"]

\* the request with the schema's defaults, and requests that differ in one field
LabelOptions ==
    LET dflt == [auto_annotate |-> TRUE, start_number |-> AUTO_LABEL_START_NUMBER,
                 number_increment |-> AUTO_LABEL_INCREMENT, add_leader_lines |-> TRUE]
    IN  {dflt, [dflt EXCEPT !.auto_annotate = FALSE],
         [dflt EXCEPT !.add_leader_lines = FALSE],
         [dflt EXCEPT !.start_number = 1], [dflt EXCEPT !.number_increment = 1]}

GenerateRequests ==
    {[endpoint |-> "generate", b64ok |-> b, auto_annotate |-> o.auto_annotate,
      start_number |-> o.start_number, number_increment |-> o.number_increment,
      add_leader_lines |-> o.add_leader_lines] :
        b \in BOOLEAN, o \in LabelOptions}

VectorizeRequests ==
    [endpoint : {"vectorize"}, b64ok : BOOLEAN, image : RequestImages,
     threshold : Thresholds, optimize : BOOLEAN]

\* the SVG a caller submits: well formed (here without elements) or not
SubmittedSvgs ==
    { SvgRoot("submitted", 8, 8, << PathElem(<< [is_corner |-> TRUE] >>) >>),
      [kind |-> "malformed"] }

AnnotateRequests ==
    {[endpoint |-> "annotate", b64ok |-> b, svg_content |-> x,
      start_number |-> o.start_number, number_increment |-> o.number_increment,
      add_leader_lines |-> o.add_leader_lines] :
        b \in BOOLEAN, x \in SubmittedSvgs, o \in {l \in LabelOptions : l.auto_annotate}}

(***************************************************************************)
(* What each handler passes to its pipeline entry point.                   *)
(***************************************************************************)
\* generate_diagram, lines 78-87
GenerateKwargs(req) ==
    [entry |-> "process_sketch", auto_annotate |-> req.auto_annotate,
     start_number |-> req.start_number, number_increment |-> req.number_increment,
     add_leader_lines |-> req.add_leader_lines]

\* vectorize_image, lines 153-157
VectorizeKwargs(req) ==
    [entry |-> "vectorize_only", image_bytes |-> req.image,
     threshold |-> req.threshold, optimize |-> req.optimize]

\* (a slip: the two numbers swapped)
AnnotateKwargsSwapped(req) ==
    [entry |-> "annotate_existing_svg", svg_content |-> req.svg_content,
     start_number |-> req.number_increment, number_increment |-> req.start_number,
     add_leader_lines |-> req.add_leader_lines]

\* (a slip: the full pipeline is called)
AnnotateKwargsFullPipeline(req) ==
    [entry |-> "process_sketch", auto_annotate |-> TRUE,
     svg_content |-> req.svg_content,
     start_number |-> req.start_number, number_increment |-> req.number_increment,
     add_leader_lines |-> req.add_leader_lines]

\* annotate_svg, lines 202-208
AnnotateKwargs(req) ==
    [entry |-> "annotate_existing_svg", svg_content |-> req.svg_content,
     start_number |-> req.start_number, number_increment |-> req.number_increment,
     add_leader_lines |-> req.add_leader_lines]

(***************************************************************************)
(* The handlers' entry: base64 decoding, then the pipeline entry point.    *)
(***************************************************************************)
HandlerIdle == request = NoRequest

Http(status_code, detail) == [status |-> status_code, detail |-> detail]

ResetRun ==
    /\ failure' = NoValue
    /\ sd_called' = <<>>
    /\ diagram_image' = NoValue
    /\ svg' = NoValue
    /\ components' = <<>>
    /\ labels' = <<>>
    /\ search' = FirstSearch
    /\ pipeline_result' = NoValue

\* (a slip: no except HTTPException clause, the outer handler rewrites the 400)
ReceiveRewrapped(req, kw) ==
    /\ HandlerIdle
    /\ VecIdle
    /\ request' = req
    /\ ResetRun
    /\ IF ~req.b64ok
       THEN /\ response' = Http(500, "Diagram generation failed")
            /\ kwargs' = NoCall
            /\ pstate' = "None"
            /\ hist' = <<>>
       ELSE /\ response' = NoValue
            /\ kwargs' = kw
            /\ pstate' = "Started"
            /\ hist' = <<"Started">>
    /\ UNCHANGED <<placement_config, vecVars>>

\* lines 62-87, 140-157, 189-208: a failed b64decode is answered with 400 and
\* the pipeline is not called
Receive(req, kw) ==
    /\ HandlerIdle
    /\ VecIdle
    /\ request' = req
    /\ ResetRun
    /\ IF ~req.b64ok
       THEN /\ response' = Http(400, "Invalid base64 image")
            /\ kwargs' = NoCall
            /\ pstate' = "None"
            /\ hist' = <<>>
       ELSE /\ response' = NoValue
            /\ kwargs' = kw
            /\ pstate' = "Started"
            /\ hist' = <<"Started">>
    /\ UNCHANGED <<placement_config, vecVars>>

generate_diagram == \E req \in GenerateRequests : Receive(req, GenerateKwargs(req))

vectorize_image == \E req \in VectorizeRequests : Receive(req, VectorizeKwargs(req))

annotate_svg == \E req \in AnnotateRequests : Receive(req, AnnotateKwargs(req))

(***************************************************************************)
(* Pipeline Orchestrator (spec 4.5).                                       *)
(***************************************************************************)
\* Settings.SD_API_PROVIDER and the two providers it may name
SD_API_PROVIDER == "replicate"
Providers == {"replicate", "stability_ai"}

Move(to) ==
    /\ pstate' = to
    /\ hist' = Append(hist, to)

\* an exception surfacing from a stage is reported with the state it occurred in
Fail(error) ==
    /\ Move("Failed")
    /\ failure' = [error |-> error, state |-> pstate]

BeginSynthesizing ==
    /\ pstate = "Started"
    /\ kwargs.entry = "process_sketch"
    /\ Move("Synthesizing")
    /\ sd_called' = <<SD_API_PROVIDER>>
    /\ UNCHANGED <<request, kwargs, failure, diagram_image, svg, components, labels,
                   search, placement_config, pipeline_result, response, vecVars>>

\* the configured backend returned a raster: the Vectorizer is called with it
SynthesizeDone ==
    /\ pstate = "Synthesizing"
    /\ \E image \in {i \in RequestImages : i.ok} :
          /\ diagram_image' = image
          /\ bitmap_to_svg(image, DefaultThreshold, FALSE)
    /\ Move("Vectorizing")
    /\ UNCHANGED <<request, kwargs, failure, svg, components, labels, search,
                   placement_config, sd_called, pipeline_result, response>>

\* (a slip: the other backend is tried before giving up)
SynthesizeFailedOver ==
    /\ pstate = "Synthesizing"
    /\ IF Len(sd_called) < 2
       THEN /\ sd_called' = Append(sd_called, CHOOSE p \in Providers : p # SD_API_PROVIDER)
            /\ UNCHANGED <<pstate, hist, failure>>
       ELSE /\ \E error \in {"GenerationUnavailable", "GenerationTimeout"} : Fail(error)
            /\ UNCHANGED sd_called
    /\ UNCHANGED <<request, kwargs, diagram_image, svg, components, labels, search,
                   placement_config, pipeline_result, response, vecVars>>

\* GenerationUnavailable, GenerationTimeout: terminal for the run
SynthesizeFailed ==
    /\ pstate = "Synthesizing"
    /\ \E error \in {"GenerationUnavailable", "GenerationTimeout"} : Fail(error)
    /\ UNCHANGED <<request, kwargs, diagram_image, svg, components, labels, search,
                   placement_config, sd_called, pipeline_result, response, vecVars>>

\* the vectorize-only entry point goes from Started to Vectorizing
BeginVectorizing ==
    /\ pstate = "Started"
    /\ kwargs.entry = "vectorize_only"
    /\ bitmap_to_svg(kwargs.image_bytes, kwargs.threshold, FALSE)
    /\ Move("Vectorizing")
    /\ UNCHANGED <<request, kwargs, failure, diagram_image, svg, components, labels,
                   search, placement_config, sd_called, pipeline_result, response>>

\* bitmap_to_svg returned: the full pipeline goes on, vectorize-only is done
VectorizeReturned ==
    /\ pstate = "Vectorizing"
    /\ pc = "returned"
    /\ IF kwargs.entry = "vectorize_only"
       THEN /\ \E scour_importable \in BOOLEAN :
                  svg' = IF kwargs.optimize
                         THEN optimize_svg(result, scour_importable) ELSE result
            /\ pipeline_result' = svg'
            /\ Move("Completed")
       ELSE /\ svg' = result
            /\ Move("Detecting")
            /\ UNCHANGED pipeline_result
    /\ VecCallOver
    /\ UNCHANGED <<request, kwargs, failure, diagram_image, components, labels, search,
                   placement_config, sd_called, response>>

\* bitmap_to_svg raised: no fallback of the stage covers it
VectorizeRaised ==
    /\ pstate = "Vectorizing"
    /\ pc = "raised"
    /\ Fail(exc)
    /\ VecCallOver
    /\ UNCHANGED <<request, kwargs, diagram_image, svg, components, labels, search,
                   placement_config, sd_called, pipeline_result, response>>

\* the annotate-only entry point goes from Started to Detecting
BeginDetecting ==
    /\ pstate = "Started"
    /\ kwargs.entry = "annotate_existing_svg"
    /\ svg' = kwargs.svg_content
    /\ Move("Detecting")
    /\ UNCHANGED <<request, kwargs, failure, diagram_image, components, labels, search,
                   placement_config, sd_called, pipeline_result, response, vecVars>>

\* (a slip: an empty detection aborts the run)
DetectOrAbort ==
    /\ pstate = "Detecting"
    /\ \E found \in FoundLists(MaxComponents) :
          /\ components' = DetectComponents(found)
          /\ IF found = <<>>
             THEN Fail("DetectionEmpty")
             ELSE Move("Annotating") /\ UNCHANGED failure
    /\ labels' = <<>>
    /\ search' = FirstSearch
    /\ UNCHANGED <<request, kwargs, diagram_image, svg, placement_config, sd_called,
                   pipeline_result, response, vecVars>>

\* zero components is a valid outcome: the run goes on
Detect ==
    /\ pstate = "Detecting"
    /\ \E found \in FoundLists(MaxComponents) : components' = DetectComponents(found)
    /\ labels' = <<>>
    /\ search' = FirstSearch
    /\ Move("Annotating")
    /\ UNCHANGED <<request, kwargs, failure, diagram_image, svg, placement_config, sd_called,
                   pipeline_result, response, vecVars>>

\* one candidate of the ring search of the next label, in Detector order
PlaceStep ==
    /\ pstate = "Annotating"
    /\ Len(labels) < Len(components)
    /\ LET i == Len(labels) + 1
           comp == components[i]
           cand == Candidate(DefaultAnchor(comp.box, placement_config), search)
       IN  IF Clear(cand, labels, placement_config)
           THEN /\ labels' = Append(labels, Label(i, comp, cand, FALSE, kwargs))
                /\ search' = FirstSearch
           ELSE IF Exhausted(search, placement_config)
           THEN /\ labels' = Append(labels, Label(i, comp, cand, TRUE, kwargs))
                /\ search' = FirstSearch
           ELSE /\ labels' = labels
                /\ search' = NextSearch(search, placement_config)
    /\ UNCHANGED <<request, kwargs, pstate, hist, failure, diagram_image, svg,
                   components, placement_config, sd_called, pipeline_result, response, vecVars>>

\* the dict an entry point returns; which keys it carries is the pipeline's doing
ResultDicts(full) ==
    {full} \cup {[k \in DOMAIN full \ {drop} |-> full[k]] : drop \in DOMAIN full}

QualityMetrics(comps, ls) ==
    [num_components |-> Len(comps), placement_penalties |-> Penalties(ls)]

\* all labels are placed: merge them into the SVG and assemble the result
Merge ==
    /\ pstate = "Annotating"
    /\ Len(labels) = Len(components)
    /\ IF svg.kind # "svg"
       THEN /\ Fail("MalformedSvg")
            /\ UNCHANGED <<svg, pipeline_result>>
       ELSE /\ svg' = MergeLabels(svg, labels)
            /\ Move("Completed")
            /\ UNCHANGED failure
            /\ pipeline_result' \in
                 IF kwargs.entry = "process_sketch"
                 THEN ResultDicts(
                        [svg_content |-> svg', diagram_image |-> diagram_image,
                         components |-> components, labels |-> labels,
                         processing_time_ms |-> "elapsed",
                         auto_annotated |-> kwargs.auto_annotate,
                         quality_metrics |-> QualityMetrics(components, labels)])
                 ELSE ResultDicts(
                        [svg_content |-> svg', labels |-> labels,
                         num_components |-> Len(components)])
    /\ UNCHANGED <<request, kwargs, diagram_image, components, labels, search,
                   placement_config, sd_called, response, vecVars>>

(***************************************************************************)
(* The handlers' exit: the response model or an HTTP error.                *)
(***************************************************************************)
\* the keys generate_diagram subscripts, lines 90-103
GenerateRequiredKeys ==
    {"diagram_image", "svg_content", "components", "labels", "processing_time_ms",
     "auto_annotated"}

Get(res, key, default) == IF key \in DOMAIN res THEN res[key] ELSE default

\* (a slip: every key is read with .get and a default)
GenerateResponseLax(res) ==
    [status |-> 200,
     body |-> [diagram_id |-> "None",
               svg_content |-> Get(res, "svg_content", ""),
               diagram_image_url |->
                   <<"data:image/png;base64", Get(res, "diagram_image", "")>>,
               components |-> Get(res, "components", <<>>),
               labels |-> Get(res, "labels", <<>>),
               processing_time_ms |-> Get(res, "processing_time_ms", 0),
               auto_annotated |-> Get(res, "auto_annotated", FALSE),
               quality_metrics |-> Get(res, "quality_metrics", <<>>)]]

\* lines 89-105: a missing key raises KeyError, except quality_metrics,
\* which is read with result.get('quality_metrics', {})
GenerateResponse(res) ==
    IF GenerateRequiredKeys \subseteq DOMAIN res
    THEN [status |-> 200,
          body |-> [diagram_id |-> "None",
                    svg_content |-> res.svg_content,
                    diagram_image_url |-> <<"data:image/png;base64", res.diagram_image>>,
                    components |-> res.components,
                    labels |-> res.labels,
                    processing_time_ms |-> res.processing_time_ms,
                    auto_annotated |-> res.auto_annotated,
                    quality_metrics |-> IF "quality_metrics" \in DOMAIN res
                                        THEN res.quality_metrics ELSE <<>>]]
    ELSE Http(500, "Diagram generation failed")

\* lines 159-162
VectorizeResponse(res, req) ==
    [status |-> 200,
     body |-> [svg_content |-> res, optimization_applied |-> req.optimize]]

\* lines 210-214
AnnotateResponse(res) ==
    IF {"svg_content", "labels", "num_components"} \subseteq DOMAIN res
    THEN [status |-> 200,
          body |-> [svg_content |-> res.svg_content, labels |-> res.labels,
                    num_components |-> res.num_components]]
    ELSE Http(500, "Annotation failed")

Respond(endpoint, ok_response, detail) ==
    /\ request.endpoint = endpoint
    /\ response = NoValue
    /\ pstate \in {"Completed", "Failed"}
    /\ response' = IF pstate = "Failed" THEN Http(500, detail) ELSE ok_response
    /\ UNCHANGED <<request, kwargs, pstate, hist, failure, diagram_image, svg,
                   components, labels, search, placement_config, sd_called, pipeline_result,
                   vecVars>>

\* lines 89-122
generate_diagram_return ==
    Respond("generate", GenerateResponse(pipeline_result), "Diagram generation failed")

\* lines 159-171
vectorize_image_return ==
    Respond("vectorize", VectorizeResponse(pipeline_result, request),
            "Vectorization failed")

\* lines 210-223
annotate_svg_return ==
    Respond("annotate", AnnotateResponse(pipeline_result), "Annotation failed")

\* the response is sent: the invocation's entities are discarded
Served ==
    /\ response # NoValue
    /\ request' = NoRequest
    /\ response' = NoValue
    /\ kwargs' = NoCall
    /\ pstate' = "None"
    /\ hist' = <<>>
    /\ ResetRun
    /\ UNCHANGED <<placement_config, vecVars>>

(***************************************************************************)
(* Specifications.                                                         *)
(***************************************************************************)
PipeInit ==
    /\ request = NoRequest
    /\ kwargs = NoCall
    /\ pstate = "None"
    /\ hist = <<>>
    /\ failure = NoValue
    /\ sd_called = <<>>
    /\ diagram_image = NoValue
    /\ svg = NoValue
    /\ components = <<>>
    /\ labels = <<>>
    /\ search = FirstSearch
    /\ placement_config \in PlacementConfigs
    /\ pipeline_result = NoValue
    /\ response = NoValue

\* no caller of optimize_svg, no concurrent call
\* exceptions: the class, and for an HTTPException its status and detail
NoExc == [cls |-> "none", status |-> 0, detail |-> <<>>]

HTTPException(status_code, detail) ==
    [cls |-> "HTTPException", status |-> status_code, detail |-> detail]

Error(cls) == [cls |-> cls, status |-> 0, detail |-> <<cls>>]

NotHandled == [kind |-> "none", value |-> "none", exc |-> NoExc]

WebIdle ==
    [endpoint |-> "none", pc |-> "idle", project |-> "none", signature |-> "none",
     svc_exc |-> NoExc]

AuxInit ==
    /\ traced = <<>>
    /\ path_svg = NoValue
    /\ web = WebIdle
    /\ dblog = <<>>
    /\ svc_calls = <<>>
    /\ handled = NotHandled
    /\ propagated = NoExc
    /\ opt_in = NoValue
    /\ opt_scour = FALSE
    /\ opt_out = <<>>
    /\ calls = <<>>
    /\ tmpfs = <<>>

Init == VecInit /\ PipeInit /\ AuxInit

Next ==
    \/ (generate_diagram /\ UNCHANGED auxVars)
    \/ (vectorize_image /\ UNCHANGED auxVars)
    \/ (annotate_svg /\ UNCHANGED auxVars)
    \/ (BeginSynthesizing /\ UNCHANGED auxVars)
    \/ (SynthesizeDone /\ UNCHANGED auxVars)
    \/ (SynthesizeFailed /\ UNCHANGED auxVars)
    \/ (BeginVectorizing /\ UNCHANGED auxVars)
    \/ (OpenImage /\ UNCHANGED pipeVars /\ UNCHANGED auxVars)
    \/ (NativeBitmap /\ UNCHANGED pipeVars /\ UNCHANGED auxVars)
    \/ (NativeTrace(RequestPaths) /\ UNCHANGED pipeVars /\ UNCHANGED auxVars)
    \/ (CliSave /\ UNCHANGED pipeVars /\ UNCHANGED auxVars)
    \/ (CliRun /\ UNCHANGED pipeVars /\ UNCHANGED auxVars)
    \/ (CliChildDone /\ UNCHANGED pipeVars /\ UNCHANGED auxVars)
    \/ (CliChildFailed /\ UNCHANGED pipeVars /\ UNCHANGED auxVars)
    \/ (CliTimeout /\ UNCHANGED pipeVars /\ UNCHANGED auxVars)
    \/ (CliRead(RequestPaths) /\ UNCHANGED pipeVars /\ UNCHANGED auxVars)
    \/ (VectorizeReturned /\ UNCHANGED auxVars)
    \/ (VectorizeRaised /\ UNCHANGED auxVars)
    \/ (BeginDetecting /\ UNCHANGED auxVars)
    \/ (Detect /\ UNCHANGED auxVars)
    \/ (PlaceStep /\ UNCHANGED auxVars)
    \/ (Merge /\ UNCHANGED auxVars)
    \/ (generate_diagram_return /\ UNCHANGED auxVars)
    \/ (vectorize_image_return /\ UNCHANGED auxVars)
    \/ (annotate_svg_return /\ UNCHANGED auxVars)
    \/ (Served /\ UNCHANGED auxVars)

\* the endpoints and the pipeline they drive
Spec == Init /\ [][Next]_vars

\* the Annotator's loop runs to its end once started
FairSpec ==
    /\ Spec
    /\ WF_vars(PlaceStep /\ UNCHANGED auxVars)
    /\ WF_vars(Merge /\ UNCHANGED auxVars)

\* a caller of the service itself: any image, threshold and invert flag
VecCall ==
    /\ pc = "idle"
    /\ \E image \in Images(MaxPixels), threshold \in Thresholds, invert \in BOOLEAN :
          bitmap_to_svg(image, threshold, invert)

VecNext ==
    \/ (VecCall /\ UNCHANGED pipeVars /\ UNCHANGED auxVars)
    \/ (VecCallOver /\ UNCHANGED pipeVars /\ UNCHANGED auxVars)
    \/ (OpenImage /\ UNCHANGED pipeVars /\ UNCHANGED auxVars)
    \/ (NativeBitmap /\ UNCHANGED pipeVars /\ UNCHANGED auxVars)
    \/ (NativeTrace(Paths(MaxCurves, MaxSegments)) /\ UNCHANGED pipeVars /\ UNCHANGED auxVars)
    \/ (CliSave /\ UNCHANGED pipeVars /\ UNCHANGED auxVars)
    \/ (CliRun /\ UNCHANGED pipeVars /\ UNCHANGED auxVars)
    \/ (CliChildDone /\ UNCHANGED pipeVars /\ UNCHANGED auxVars)
    \/ (CliChildFailed /\ UNCHANGED pipeVars /\ UNCHANGED auxVars)
    \/ (CliTimeout /\ UNCHANGED pipeVars /\ UNCHANGED auxVars)
    \/ (CliRead(Paths(MaxCurves, MaxSegments)) /\ UNCHANGED pipeVars /\ UNCHANGED auxVars)

\* the vectorization service called on its own
SpecVec == Init /\ [][VecNext]_vars

\* a caller with an image of the size the endpoints are given
RequestCall ==
    /\ pc = "idle"
    /\ \E image \in RequestImages, threshold \in Thresholds, invert \in BOOLEAN :
          bitmap_to_svg(image, threshold, invert)

CallNext ==
    \/ (RequestCall /\ UNCHANGED pipeVars /\ UNCHANGED auxVars)
    \/ (VecCallOver /\ UNCHANGED pipeVars /\ UNCHANGED auxVars)
    \/ (OpenImage /\ UNCHANGED pipeVars /\ UNCHANGED auxVars)
    \/ (NativeBitmap /\ UNCHANGED pipeVars /\ UNCHANGED auxVars)
    \/ (NativeTrace(RequestPaths) /\ UNCHANGED pipeVars /\ UNCHANGED auxVars)
    \/ (CliSave /\ UNCHANGED pipeVars /\ UNCHANGED auxVars)
    \/ (CliRun /\ UNCHANGED pipeVars /\ UNCHANGED auxVars)
    \/ (CliChildDone /\ UNCHANGED pipeVars /\ UNCHANGED auxVars)
    \/ (CliChildFailed /\ UNCHANGED pipeVars /\ UNCHANGED auxVars)
    \/ (CliTimeout /\ UNCHANGED pipeVars /\ UNCHANGED auxVars)
    \/ (CliRead(RequestPaths) /\ UNCHANGED pipeVars /\ UNCHANGED auxVars)

\* a call runs on from statement to statement, and the timeout of
\* subprocess.run fires while the child runs; the child itself may hang
FairSpecCall ==
    /\ Init /\ [][CallNext]_vars
    /\ WF_vars(OpenImage /\ UNCHANGED pipeVars /\ UNCHANGED auxVars)
    /\ WF_vars(CliSave /\ UNCHANGED pipeVars /\ UNCHANGED auxVars)
    /\ WF_vars(CliRun /\ UNCHANGED pipeVars /\ UNCHANGED auxVars)
    /\ WF_vars(CliTimeout /\ UNCHANGED pipeVars /\ UNCHANGED auxVars)
    /\ WF_vars(CliRead(RequestPaths) /\ UNCHANGED pipeVars /\ UNCHANGED auxVars)

(***************************************************************************)
(* A caller of optimize_svg: any well-formed SVG, optimized twice.         *)
(***************************************************************************)
\* largest number of elements below the root of such a document
MaxSvgElems == 2

\* no text, whitespace only, text that is not whitespace
SvgStrings == {<<>>, <<" ">>, <<"t">>}

\* an element with children is a group, one without is a path
SvgNode(text, tail, kids) ==
    SetStr(SetStr(IF kids = <<>>
                  THEN PathElem(<< [is_corner |-> FALSE] >>)
                  ELSE [tag |-> "g", fill |-> "black", children |-> kids],
                  "text", text),
           "tail", tail)

\* the sequences of sibling elements with n elements in all, nested or not
RECURSIVE Forests(_)
Forests(n) ==
    IF n = 0 THEN {<<>>}
    ELSE UNION { { <<SvgNode(text, tail, kids)>> \o rest :
                      text \in SvgStrings, tail \in SvgStrings,
                      kids \in Forests(k), rest \in Forests(n - 1 - k) } :
                 k \in 0..(n - 1) }

WellFormedSvgs ==
    { SetStr(SvgRoot("submitted", 8, 8, f), "text", text) :
         f \in UNION {Forests(n) : n \in 0..MaxSvgElems}, text \in SvgStrings }
    \cup {_placeholder_svg(1, 1)}
    \cup {_path_to_svg(p, 1, 1) : p \in RequestPaths}
    \cup {PotraceSvg(p, 1, 1) : p \in RequestPaths}

OptCall ==
    /\ opt_in = NoValue
    /\ \E svg_content \in WellFormedSvgs, scour_importable \in BOOLEAN :
          /\ opt_in' = svg_content
          /\ opt_scour' = scour_importable
    /\ opt_out' = <<>>

\* optimize_svg is called on the document, then on what it returned
OptPass ==
    /\ opt_in # NoValue
    /\ Len(opt_out) < 2
    /\ opt_out' = Append(opt_out,
                         optimize_svg(IF opt_out = <<>> THEN opt_in
                                      ELSE opt_out[Len(opt_out)], opt_scour))
    /\ UNCHANGED <<opt_in, opt_scour>>

OptOver ==
    /\ Len(opt_out) = 2
    /\ opt_in' = NoValue
    /\ opt_scour' = FALSE
    /\ opt_out' = <<>>

OptNext ==
    \/ (OptCall /\ UNCHANGED <<vecVars, pipeVars, concVars, apiVars, pathVars>>)
    \/ (OptPass /\ UNCHANGED <<vecVars, pipeVars, concVars, apiVars, pathVars>>)
    \/ (OptOver /\ UNCHANGED <<vecVars, pipeVars, concVars, apiVars, pathVars>>)

SpecOpt == Init /\ [][OptNext]_vars

(***************************************************************************)
(* Concurrent requests: two bitmap_to_svg calls on the global vectorizer   *)
(* (line 283), each with its own locals, interleaved step by step.         *)
(***************************************************************************)
Callers == {"request_a", "request_b"}

\* the names tempfile may give a directory
DirNames == {"tmp_1", "tmp_2"}

\* (a slip: a fixed scratch directory)
mkdtemp_fixed(fs) == "tmp_1"

\* tempfile.TemporaryDirectory(), line 128: a directory that did not exist
mkdtemp(fs) == CHOOSE d \in DirNames : d \notin DOMAIN fs

Without(f, x) == [y \in DOMAIN f \ {x} |-> f[y]]

\* input.pbm as written by img_bw.save: the size and the bits
PbmFile(c) ==
    [kind |-> "pbm", data |-> SavePbm(c.img_bw),
     width |-> c.image.width, height |-> c.image.height]

\* a call with some of its locals changed
Set(t, c) == calls' = [calls EXCEPT ![t] = c]

ConcReturn(t, value) ==
    Set(t, [calls[t] EXCEPT !.pc = "returned", !.result = value, !.tmpdir = "none"])

ConcRaise(t, e) ==
    Set(t, [calls[t] EXCEPT !.pc = "raised", !.exc = e, !.tmpdir = "none"])

\* leaving the with-block removes the call's directory and what is in it
ConcExitTmpDir(t) == tmpfs' = Without(tmpfs, calls[t].tmpdir)

\* bitmap_to_svg, lines 45-67, called for a request while another may be running
ConcCall(t) ==
    /\ t \notin DOMAIN calls
    /\ \E image \in RequestImages :
          calls' = calls @@ (t :> [pc |-> "open", image |-> image,
                                   threshold |-> DefaultThreshold, invert |-> FALSE,
                                   img_bw |-> <<>>, tmpdir |-> "none", child |-> "none",
                                   result |-> NoValue, exc |-> "none"])
    /\ UNCHANGED tmpfs

\* lines 64, 80-87, 118-126
ConcOpen(t) ==
    /\ t \in DOMAIN calls
    /\ calls[t].pc = "open"
    /\ LET c == calls[t]
       IN  IF ~c.image.ok
           THEN ConcRaise(t, "UnidentifiedImageError")
           ELSE Set(t, [c EXCEPT !.img_bw = Binarize(c.image.lum, c.threshold, c.invert),
                                 !.pc = IF PYPOTRACE_AVAILABLE THEN "native" ELSE "cli"])
    /\ UNCHANGED tmpfs

\* lines 89-102: default_params is read, nothing of the instance is written
ConcNative(t) ==
    /\ t \in DOMAIN calls
    /\ calls[t].pc = "native"
    /\ NativeRequest(default_params).turdsize = default_params.turdsize
    /\ LET c == calls[t]
           input == [kind |-> "bitmap_array", data |-> NumpyBool(c.img_bw)]
       IN  \/ ConcRaise(t, "TracerError")
           \/ \E path \in TracedPaths(input, RequestPaths) :
                 ConcReturn(t, _path_to_svg(path, c.image.width, c.image.height))
    /\ UNCHANGED tmpfs

\* lines 128-133: the call's directory is made and input.pbm is saved in it
ConcSave(t) ==
    /\ t \in DOMAIN calls
    /\ calls[t].pc = "cli"
    /\ LET d == mkdtemp(tmpfs)
           dir == IF d \in DOMAIN tmpfs THEN tmpfs[d] ELSE <<>>
       IN  /\ tmpfs' = Without(tmpfs, d) @@ (d :> (Without(dir, "input.pbm")
                                                   @@ ("input.pbm" :> PbmFile(calls[t]))))
           /\ Set(t, [calls[t] EXCEPT !.tmpdir = d, !.pc = "run"])

\* lines 135-159: subprocess.run starts potrace on the call's two paths
ConcRun(t) ==
    /\ t \in DOMAIN calls
    /\ calls[t].pc = "run"
    /\ CliRequest(default_params).turdsize = default_params.turdsize
    /\ \/ /\ Set(t, [calls[t] EXCEPT !.child = "running", !.pc = "wait"])
          /\ UNCHANGED tmpfs
       \/ /\ ConcReturn(t, _placeholder_svg(calls[t].image.width, calls[t].image.height))
          /\ ConcExitTmpDir(t)

\* potrace traces the input.pbm it finds at its path, writes output.svg, exits 0
ConcChildDone(t) ==
    /\ t \in DOMAIN calls
    /\ calls[t].pc = "wait"
    /\ LET d == calls[t].tmpdir
       IN  /\ d \in DOMAIN tmpfs
           /\ "input.pbm" \in DOMAIN tmpfs[d]
           /\ \E path \in TracedPaths(tmpfs[d]["input.pbm"], RequestPaths) :
                 tmpfs' = [tmpfs EXCEPT ![d] =
                             Without(@, "output.svg")
                             @@ ("output.svg" :> PotraceSvg(path,
                                                     tmpfs[d]["input.pbm"].width,
                                                     tmpfs[d]["input.pbm"].height))]
    /\ Set(t, [calls[t] EXCEPT !.child = "exited", !.pc = "read"])

\* lines 160-165: non-zero exit, or the timeout after which the child is killed
ConcChildFailed(t) ==
    /\ t \in DOMAIN calls
    /\ calls[t].pc = "wait"
    /\ \E ended \in {"failed", ChildAfterTimeout} :
          Set(t, [calls[t] EXCEPT !.child = ended, !.pc = "returned", !.tmpdir = "none",
                                  !.result = _placeholder_svg(calls[t].image.width,
                                                              calls[t].image.height)])
    /\ ConcExitTmpDir(t)

\* lines 167-171: output.svg is read from the call's directory
ConcRead(t) ==
    /\ t \in DOMAIN calls
    /\ calls[t].pc = "read"
    /\ LET d == calls[t].tmpdir
       IN  IF d \in DOMAIN tmpfs /\ "output.svg" \in DOMAIN tmpfs[d]
           THEN ConcReturn(t, tmpfs[d]["output.svg"])
           ELSE ConcRaise(t, "FileNotFoundError")
    /\ ConcExitTmpDir(t)

\* the caller has taken the result or the exception
ConcOver(t) ==
    /\ t \in DOMAIN calls
    /\ calls[t].pc \in {"returned", "raised"}
    /\ calls' = Without(calls, t)
    /\ UNCHANGED tmpfs

ConcNext ==
    \E t \in Callers :
        \/ (ConcCall(t) /\ UNCHANGED <<vecVars, pipeVars, optVars, apiVars, pathVars>>)
        \/ (ConcOpen(t) /\ UNCHANGED <<vecVars, pipeVars, optVars, apiVars, pathVars>>)
        \/ (ConcNative(t) /\ UNCHANGED <<vecVars, pipeVars, optVars, apiVars, pathVars>>)
        \/ (ConcSave(t) /\ UNCHANGED <<vecVars, pipeVars, optVars, apiVars, pathVars>>)
        \/ (ConcRun(t) /\ UNCHANGED <<vecVars, pipeVars, optVars, apiVars, pathVars>>)
        \/ (ConcChildDone(t) /\ UNCHANGED <<vecVars, pipeVars, optVars, apiVars, pathVars>>)
        \/ (ConcChildFailed(t) /\ UNCHANGED <<vecVars, pipeVars, optVars, apiVars, pathVars>>)
        \/ (ConcRead(t) /\ UNCHANGED <<vecVars, pipeVars, optVars, apiVars, pathVars>>)
        \/ (ConcOver(t) /\ UNCHANGED <<vecVars, pipeVars, optVars, apiVars, pathVars>>)

SpecConc == Init /\ [][ConcNext]_vars

(***************************************************************************)
(* _path_to_svg alone: the serialization of any traced Path.               *)
(***************************************************************************)
\* line 102: _path_to_svg is handed the Path of a trace
PathCall ==
    /\ path_svg = NoValue
    /\ \E path \in Paths(MaxCurves, MaxSegments), d \in Dims(MaxPixels) :
          /\ traced' = path
          /\ path_svg' = _path_to_svg(path, d[1], d[2])

\* the caller has taken the SVG
PathOver ==
    /\ path_svg # NoValue
    /\ traced' = <<>>
    /\ path_svg' = NoValue

PathNext ==
    \/ (PathCall /\ UNCHANGED <<vecVars, pipeVars, optVars, concVars, apiVars>>)
    \/ (PathOver /\ UNCHANGED <<vecVars, pipeVars, optVars, concVars, apiVars>>)

SpecPath == Init /\ [][PathNext]_vars

(***************************************************************************)
(* Endpoints on a database session: get_db (database.py) around the        *)
(* handlers anchor_document, stripe_webhook and refine_patent_document.    *)
(***************************************************************************)
\* exceptions derived from Exception; asyncio.CancelledError, raised at an
\* await of a cancelled request, derives from BaseException only
IsException(e) == e.cls \notin {"none", "CancelledError"}

CancelledError == Error("CancelledError")

\* str(e): for an HTTPException "status: detail", or empty where the class
\* defines no __str__ and passes no args
Strs(e) ==
    IF e.cls = "HTTPException"
    THEN {<<>>, <<ToString(e.status), ": ">> \o e.detail}
    ELSE {e.detail}

HandlerRaise(e) ==
    /\ handled' = [kind |-> "raised", value |-> "none", exc |-> e]
    /\ web' = [web EXCEPT !.pc = "exit"]

HandlerReturn(value) ==
    /\ handled' = [kind |-> "returned", value |-> value, exc |-> NoExc]
    /\ web' = [web EXCEPT !.pc = "exit"]

\* what a service call may raise
ServiceErrors ==
    {Error("RuntimeError"), HTTPException(400, <<"Invalid signature">>), CancelledError}

\* the service raised e and the exception `raised` leaves the handler
ServiceRaised(e, raised) ==
    /\ handled' = [kind |-> "raised", value |-> "none", exc |-> raised]
    /\ web' = [web EXCEPT !.pc = "exit", !.svc_exc = e]

\* the first statement of each handler
HandlerEntry(endpoint) ==
    CASE endpoint = "anchor" -> "execute"
      [] endpoint = "webhook" -> "headers"
      [] OTHER -> "refine"

\* request.headers.get('stripe-signature'): None, an empty value, or a value
Signatures(endpoint) ==
    IF endpoint = "webhook" THEN {"absent", "empty", "present"} ELSE {"none"}

\* a request arrives at POST /api/blockchain/anchor, /api/payments/webhook
\* or /api/ai/refine
ApiRequest ==
    /\ web.pc = "idle"
    /\ \E endpoint \in {"anchor", "webhook", "refine"} :
          \E signature \in Signatures(endpoint) :
             web' = [WebIdle EXCEPT !.endpoint = endpoint, !.pc = "get_db",
                                    !.signature = signature]
    /\ UNCHANGED <<dblog, svc_calls, handled, propagated>>

\* a call on the session and the exception it raised, NoExc when it succeeded
SessionCall(op, e) == [op |-> op, exc |-> e]

\* get_db, lines 66-68: the session is made and yielded to the handler
DbEnter ==
    /\ web.pc = "get_db"
    /\ web' = [web EXCEPT !.pc = HandlerEntry(web.endpoint)]
    /\ dblog' = <<SessionCall("session", NoExc)>>
    /\ UNCHANGED <<svc_calls, handled, propagated>>

\* the rows select(Project).where(id == project_id) can find: none, or the
\* project with its payment_status
ProjectRows == {"missing", "unpaid", "pending", "paid"}

\* blockchain_routes.py lines 45-48
AnchorExecute ==
    /\ web.endpoint = "anchor" /\ web.pc = "execute"
    /\ \/ /\ \E row \in ProjectRows : web' = [web EXCEPT !.project = row, !.pc = "guard"]
          /\ UNCHANGED handled
       \/ \E e \in {Error("SQLAlchemyError"), CancelledError} : HandlerRaise(e)
    /\ UNCHANGED <<dblog, svc_calls, propagated>>

\* (a slip: only the project's existence is checked)
AnchorGuardFoundOnly ==
    /\ web.endpoint = "anchor" /\ web.pc = "guard"
    /\ IF web.project = "missing"
       THEN HandlerRaise(HTTPException(404, <<"Project not found">>))
       ELSE web' = [web EXCEPT !.pc = "anchoring"] /\ UNCHANGED handled
    /\ UNCHANGED <<dblog, svc_calls, propagated>>

\* lines 50-57
AnchorGuard ==
    /\ web.endpoint = "anchor" /\ web.pc = "guard"
    /\ IF web.project = "missing"
       THEN HandlerRaise(HTTPException(404, <<"Project not found">>))
       ELSE IF web.project # "paid"
       THEN HandlerRaise(HTTPException(403, <<"Payment required to anchor document">>))
       ELSE web' = [web EXCEPT !.pc = "anchoring"] /\ UNCHANGED handled
    /\ UNCHANGED <<dblog, svc_calls, propagated>>

\* lines 59-70: the service is called; whatever Exception it or the
\* response model raises becomes a 500
AnchorCall ==
    /\ web.endpoint = "anchor" /\ web.pc = "anchoring"
    /\ svc_calls' = Append(svc_calls, "anchor_document")
    /\ \/ HandlerReturn("AnchorResponse")
       \/ \E e \in ServiceErrors :
             IF IsException(e)
             THEN \E str \in Strs(e) : ServiceRaised(e, HTTPException(500, str))
             ELSE ServiceRaised(e, e)
    /\ UNCHANGED <<dblog, propagated>>

\* payment_routes.py lines 77-81
WebhookHeaders ==
    /\ web.endpoint = "webhook" /\ web.pc = "headers"
    /\ IF web.signature \in {"absent", "empty"}
       THEN HandlerRaise(HTTPException(400, <<"Missing signature">>))
       ELSE web' = [web EXCEPT !.pc = "processing"] /\ UNCHANGED handled
    /\ UNCHANGED <<dblog, svc_calls, propagated>>

\* (a slip: no except HTTPException clause before except Exception)
WebhookCallCatchAll ==
    /\ web.endpoint = "webhook" /\ web.pc = "processing"
    /\ svc_calls' = Append(svc_calls, "handle_webhook")
    /\ \/ HandlerReturn("result")
       \/ \E e \in ServiceErrors :
             IF IsException(e)
             THEN ServiceRaised(e, HTTPException(500, <<"Webhook processing failed">>))
             ELSE ServiceRaised(e, e)
    /\ UNCHANGED <<dblog, propagated>>

\* lines 83-95
WebhookCall ==
    /\ web.endpoint = "webhook" /\ web.pc = "processing"
    /\ svc_calls' = Append(svc_calls, "handle_webhook")
    /\ \/ HandlerReturn("result")
       \/ \E e \in ServiceErrors :
             IF e.cls = "HTTPException" \/ ~IsException(e)
             THEN ServiceRaised(e, e)
             ELSE ServiceRaised(e, HTTPException(500, <<"Webhook processing failed">>))
    /\ UNCHANGED <<dblog, propagated>>

\* ai_generation.py lines 187-198: the 501 is raised inside the try whose
\* except Exception clause catches it
refine_patent_document ==
    /\ web.endpoint = "refine" /\ web.pc = "refine"
    /\ LET e == HTTPException(501, <<"Document refinement not yet implemented. ",
                                     "Provide document in request.">>)
       IN  IF IsException(e)
           THEN \E str \in Strs(e) : HandlerRaise(HTTPException(500, str))
           ELSE HandlerRaise(e)
    /\ UNCHANGED <<dblog, svc_calls, propagated>>

\* get_db, line 69: the handler returned, the session is committed
DbCommit ==
    /\ web.pc = "exit" /\ handled.kind = "returned"
    /\ \/ /\ dblog' = Append(dblog, SessionCall("commit", NoExc))
          /\ web' = [web EXCEPT !.pc = "finally"]
          /\ UNCHANGED propagated
       \/ \E e \in {Error("SQLAlchemyError"), CancelledError} :
             /\ dblog' = Append(dblog, SessionCall("commit", e))
             /\ propagated' = e
             /\ web' = [web EXCEPT !.pc = IF IsException(e) THEN "except" ELSE "finally"]
    /\ UNCHANGED <<svc_calls, handled>>

\* line 68: the handler's exception is thrown into the generator at the yield
DbThrow ==
    /\ web.pc = "exit" /\ handled.kind = "raised"
    /\ propagated' = handled.exc
    /\ web' = [web EXCEPT !.pc = IF IsException(handled.exc) THEN "except" ELSE "finally"]
    /\ UNCHANGED <<dblog, svc_calls, handled>>

\* (a slip: no raise after the rollback)
DbRollbackSwallow ==
    /\ web.pc = "except"
    /\ \/ /\ dblog' = Append(dblog, SessionCall("rollback", NoExc))
          /\ propagated' = NoExc
       \/ /\ dblog' = Append(dblog, SessionCall("rollback", Error("RollbackError")))
          /\ propagated' = Error("RollbackError")
    /\ web' = [web EXCEPT !.pc = "finally"]
    /\ UNCHANGED <<svc_calls, handled>>

\* lines 70-72: rollback, then the bare raise; a failing rollback raises its own
DbRollback ==
    /\ web.pc = "except"
    /\ \/ /\ dblog' = Append(dblog, SessionCall("rollback", NoExc))
          /\ UNCHANGED propagated
       \/ /\ dblog' = Append(dblog, SessionCall("rollback", Error("RollbackError")))
          /\ propagated' = Error("RollbackError")
    /\ web' = [web EXCEPT !.pc = "finally"]
    /\ UNCHANGED <<svc_calls, handled>>

\* session.close(): it may fail, and its exception then replaces the one in flight
Close ==
    \/ /\ dblog' = Append(dblog, SessionCall("close", NoExc))
       /\ UNCHANGED propagated
    \/ /\ dblog' = Append(dblog, SessionCall("close", Error("CloseError")))
       /\ propagated' = Error("CloseError")

\* lines 73-74
DbClose ==
    /\ web.pc = "finally"
    /\ Close
    /\ web' = [web EXCEPT !.pc = "aexit"]
    /\ UNCHANGED <<svc_calls, handled>>

\* line 66: leaving the async with closes the session again
DbExit ==
    /\ web.pc = "aexit"
    /\ Close
    /\ web' = [web EXCEPT !.pc = "done"]
    /\ UNCHANGED <<svc_calls, handled>>

\* the request is over
ApiOver ==
    /\ web.pc = "done"
    /\ web' = WebIdle
    /\ dblog' = <<>>
    /\ svc_calls' = <<>>
    /\ handled' = NotHandled
    /\ propagated' = NoExc

ApiNext ==
    \/ (ApiRequest /\ UNCHANGED <<vecVars, pipeVars, optVars, concVars, pathVars>>)
    \/ (DbEnter /\ UNCHANGED <<vecVars, pipeVars, optVars, concVars, pathVars>>)
    \/ (AnchorExecute /\ UNCHANGED <<vecVars, pipeVars, optVars, concVars, pathVars>>)
    \/ (AnchorGuard /\ UNCHANGED <<vecVars, pipeVars, optVars, concVars, pathVars>>)
    \/ (AnchorCall /\ UNCHANGED <<vecVars, pipeVars, optVars, concVars, pathVars>>)
    \/ (WebhookHeaders /\ UNCHANGED <<vecVars, pipeVars, optVars, concVars, pathVars>>)
    \/ (WebhookCall /\ UNCHANGED <<vecVars, pipeVars, optVars, concVars, pathVars>>)
    \/ (refine_patent_document /\ UNCHANGED <<vecVars, pipeVars, optVars, concVars, pathVars>>)
    \/ (DbCommit /\ UNCHANGED <<vecVars, pipeVars, optVars, concVars, pathVars>>)
    \/ (DbThrow /\ UNCHANGED <<vecVars, pipeVars, optVars, concVars, pathVars>>)
    \/ (DbRollback /\ UNCHANGED <<vecVars, pipeVars, optVars, concVars, pathVars>>)
    \/ (DbClose /\ UNCHANGED <<vecVars, pipeVars, optVars, concVars, pathVars>>)
    \/ (DbExit /\ UNCHANGED <<vecVars, pipeVars, optVars, concVars, pathVars>>)
    \/ (ApiOver /\ UNCHANGED <<vecVars, pipeVars, optVars, concVars, pathVars>>)

SpecApi == Init /\ [][ApiNext]_vars

(***************************************************************************)
(* Properties.                                                             *)
(***************************************************************************)
\* the exceptions that come from the tracing backend
TracerErrors == {"TracerError"}

\* C1: a call on a decodable image never raises because of the tracing
\* backend: a tracer that is missing, raises, exits non-zero or times out
\* gives the placeholder SVG of the image's width and height.
C1_TracerFailureGivesPlaceholder ==
    (pc = "raised" /\ args.image.ok) => exc \notin TracerErrors

\* C2: a full-pipeline invocation visits its states in the order Started,
\* Synthesizing, Vectorizing, Detecting, Annotating, Completed, and ends in
\* Failed from Synthesizing only: no exception raised in Vectorizing, Detecting
\* or Annotating ends the run in Failed.
C2_FailedFromSynthesizingOnly ==
    (kwargs.entry = "process_sketch" /\ pstate = "Failed") =>
        /\ failure.state = "Synthesizing"
        /\ hist = <<"Started", "Synthesizing", "Failed">>

C3_ResponseFields ==
    {"svg_content", "diagram_image_url", "components", "labels",
     "processing_time_ms", "auto_annotated", "quality_metrics"}

C3_SubscriptedKeys ==
    {"svg_content", "diagram_image", "components", "labels", "processing_time_ms",
     "auto_annotated"}

C3_Answered == request.endpoint = "generate" /\ response # NoValue

\* C3 as stated: a generate request ends in a complete response or in one HTTP
\* error (400 or 500), and a response is never built from a pipeline result
\* that is missing a field (quality_metrics included) or from a call that raised.
C3_NoResponseFromPartialResult ==
    (C3_Answered /\ response.status = 200) =>
        /\ pstate = "Completed"
        /\ (C3_SubscriptedKeys \cup {"quality_metrics"}) \subseteq DOMAIN pipeline_result

\* C3, amended: a generate request ends in a complete response carrying all
\* seven fields or in one HTTP error, 400 (undecodable base64) or 500; a
\* response is never built from a pipeline call that raised or from a result
\* missing one of the six subscripted keys; a missing quality_metrics is
\* replaced by an empty map.
C3_CompleteResponseOrError ==
    C3_Answered =>
        /\ response.status \in {200, 400, 500}
        /\ (response.status = 400) <=> ~request.b64ok
        /\ response.status = 200 =>
              /\ pstate = "Completed"
              /\ C3_SubscriptedKeys \subseteq DOMAIN pipeline_result
              /\ C3_ResponseFields \subseteq DOMAIN response.body
              /\ response.body.svg_content = pipeline_result.svg_content
              /\ response.body.diagram_image_url[2] = pipeline_result.diagram_image
              /\ response.body.components = pipeline_result.components
              /\ response.body.labels = pipeline_result.labels
              /\ response.body.processing_time_ms = pipeline_result.processing_time_ms
              /\ response.body.auto_annotated = pipeline_result.auto_annotated
              /\ response.body.quality_metrics =
                    IF "quality_metrics" \in DOMAIN pipeline_result
                    THEN pipeline_result.quality_metrics ELSE <<>>
        /\ response.status = 500 =>
              \/ pstate = "Failed"
              \/ /\ pstate = "Completed"
                 /\ ~(C3_SubscriptedKeys \subseteq DOMAIN pipeline_result)

\* a result without one of the subscripted keys was answered with 500
C3_Witness ==
    /\ C3_Answered
    /\ pstate = "Completed"
    /\ "labels" \notin DOMAIN pipeline_result
    /\ response.status = 500

CountOp(d, op) == Cardinality({k \in DOMAIN d : d[k].op = op})

ClosedPath(d) ==
    /\ Len(d) >= 2
    /\ d[1].op = "M"
    /\ d[Len(d)].op = "Z"
    /\ CountOp(d, "M") = 1
    /\ CountOp(d, "Z") = 1
    /\ \A k \in 2..(Len(d) - 1) : d[k].op \in {"L", "C"}

\* C4: every path element _path_to_svg emits has data that begins with exactly
\* one M, ends with exactly one Z and has only L and C commands in between,
\* for every list of traced curves, the empty one and curves without segments
\* included.
C4_PathsClosed ==
    (pc = "returned" /\ result.markup = "etree") =>
        \A k \in DOMAIN result.children :
            /\ result.children[k].tag = "path"
            /\ ClosedPath(result.children[k].d)

\* two paths were emitted, one for a curve without segments
C4_Witness ==
    /\ pc = "returned"
    /\ result.markup = "etree"
    /\ Len(result.children) = 2
    /\ Len(result.children[1].d) = 2
    /\ Len(result.children[2].d) > 3

\* what the other backend hands its tracer for the arguments of this call
OtherBackendInput ==
    LET bw == Binarize(args.image.lum, args.threshold, args.invert)
    IN  IF tracer_input.kind = "bitmap_array"
        THEN [kind |-> "pbm", data |-> SavePbm(bw)]
        ELSE [kind |-> "bitmap_array", data |-> NumpyBool(bw)]

\* C5: for the same image, threshold and invert flag both backends hand the
\* tracer the same foreground: the pixels True in pypotrace's array are the
\* pixels black in the CLI's PBM file.
C5_SameForeground ==
    tracer_input.kind \in {"bitmap_array", "pbm"} =>
        Foreground(tracer_input) = Foreground(OtherBackendInput)

Binarized == pc \in {"native", "trace", "cli", "run", "wait", "read"}

BlackPixels(bw) == {p \in DOMAIN bw : bw[p] = 0}

\* C6 as stated: a pixel is black, that is traced foreground, exactly when its
\* luminance is strictly greater than the threshold, reversed with invert.
C6_ForegroundIffAboveThreshold ==
    tracer_input.kind \in {"bitmap_array", "pbm"} =>
        Foreground(tracer_input) =
            {p \in DOMAIN args.image.lum :
                (args.image.lum[p] > args.threshold) # args.invert}

\* C6, amended: binarization maps a pixel to white (255) exactly when its
\* luminance is strictly greater than the threshold and to black (0)
\* otherwise, reversed with invert; so a pixel at the threshold is black,
\* threshold 255 leaves no white pixel, and the black set with invert is the
\* complement of the black set without.
C6_WhiteIffAboveThreshold ==
    Binarized =>
        /\ DOMAIN img_bw = DOMAIN args.image.lum
        /\ \A p \in DOMAIN img_bw :
              /\ img_bw[p] \in {0, White}
              /\ (img_bw[p] = White) <=>
                     ((args.image.lum[p] > args.threshold) # args.invert)
              /\ (args.image.lum[p] = args.threshold /\ ~args.invert) => img_bw[p] = 0
        /\ (args.threshold = White /\ ~args.invert) => BlackPixels(img_bw) = DOMAIN img_bw
        /\ BlackPixels(Binarize(args.image.lum, args.threshold, ~args.invert))
              = DOMAIN img_bw \ BlackPixels(img_bw)

\* a pixel at the threshold came out black, beside a brighter, white one
C6_Witness ==
    /\ Binarized
    /\ ~args.invert
    /\ \E p, q \in DOMAIN img_bw :
          /\ args.image.lum[p] = args.threshold
          /\ img_bw[p] = 0
          /\ args.image.lum[q] > args.threshold
          /\ img_bw[q] = White

\* C7: on every exit path of the CLI backend the temporary directory with
\* input.pbm and output.svg is removed and no potrace child is running when
\* the call returns or raises.
C7_CliCleansUp ==
    (~PYPOTRACE_AVAILABLE /\ pc \in {"returned", "raised"}) =>
        /\ tmpdir # "exists"
        /\ files = {}
        /\ child # "running"

\* the call returned the placeholder after the timeout killed the child
C7_Witness ==
    /\ ~PYPOTRACE_AVAILABLE
    /\ pc = "returned"
    /\ child = "killed"
    /\ tmpdir = "removed"
    /\ result.markup = "literal"

Annotates == request.endpoint \in {"generate", "annotate"}

\* C8: with start number s and increment d > 0 the i-th component in Detector
\* order gets the label s + (i-1)*d: the labels are {s, s+d, ..., s+(N-1)*d},
\* strictly increasing in Detector order, none used twice.
C8_LabelNumbers ==
    (Annotates /\ request.number_increment > 0) =>
        /\ \A i \in DOMAIN labels :
              /\ labels[i].component = components[i].id
              /\ labels[i].number =
                    request.start_number + (i - 1) * request.number_increment
        /\ \A i, j \in DOMAIN labels : i < j => labels[i].number < labels[j].number
        /\ pstate = "Completed" =>
              {labels[i].number : i \in DOMAIN labels} =
                 {request.start_number + k * request.number_increment :
                     k \in 0..(Len(components) - 1)}

\* two components were labelled with a start number other than the increment
C8_Witness ==
    /\ request.endpoint = "annotate"
    /\ pstate = "Completed"
    /\ Len(labels) = 2
    /\ request.start_number # request.number_increment
    /\ labels[2].number = request.start_number + request.number_increment

IsPrefix(h, full) == Len(h) <= Len(full) /\ \A k \in DOMAIN h : h[k] = full[k]

\* the states of a run that may have ended in Failed after some of path
PathOrFailed(h, path) ==
    \/ IsPrefix(h, path)
    \/ /\ Len(h) >= 2
       /\ h[Len(h)] = "Failed"
       /\ IsPrefix(SubSeq(h, 1, Len(h) - 1), SubSeq(path, 1, Len(path) - 1))

Far(a, b) ==
    Dist2(a, b) >= placement_config.min_separation * placement_config.min_separation

\* the last candidate of the ring search around a component's default anchor
LastCandidate(comp) ==
    Candidate(DefaultAnchor(comp.box, placement_config),
              [radius |-> placement_config.max_search_radius, k |-> Len(RingOffsets)])

C10_Placement ==
    /\ \A i, j \in DOMAIN labels :
          (i # j /\ ~labels[i].penalized /\ ~labels[j].penalized) =>
              Far(labels[i].anchor, labels[j].anchor)
    /\ \A j \in DOMAIN labels :
          labels[j].penalized =>
              /\ labels[j].anchor = LastCandidate(components[j])
              /\ \E i \in 1..(j - 1) : ~Far(labels[i].anchor, labels[j].anchor)
    /\ (pstate = "Completed" /\ "quality_metrics" \in DOMAIN pipeline_result) =>
          pipeline_result.quality_metrics.placement_penalties = Penalties(labels)
    /\ (pstate = "Failed" /\ failure.state = "Annotating") =>
          failure.error = "MalformedSvg"

\* C10: label placement terminates; in the final placement two anchors are at
\* least the minimum separation apart unless the ring search of one of them
\* exhausted the maximum search radius: that anchor is at its last candidate
\* and a penalty is recorded for it; placement never fails the run.
C10_PlacementTerminatesSeparated ==
    /\ []C10_Placement
    /\ (pstate = "Annotating") ~> (Len(labels) = Len(components))
    /\ (pstate = "Annotating") ~> (pstate \in {"Completed", "Failed"})

\* a run completed with a penalty for an anchor whose ring search exhausted
C10_Witness ==
    /\ pstate = "Completed"
    /\ Len(labels) = 2
    /\ labels[2].penalized
    /\ "quality_metrics" \in DOMAIN pipeline_result
    /\ pipeline_result.quality_metrics.placement_penalties = 1

\* a run completed with the second anchor moved off its default position
C10_Displaced ==
    /\ pstate = "Completed"
    /\ Len(labels) = 2
    /\ ~labels[2].penalized
    /\ labels[2].anchor # DefaultAnchor(components[2].box, placement_config)

\* the regions of a component list
Regions(comps) == {comps[i].box : i \in DOMAIN comps}

\* C11: the Detector's ordering is deterministic: whatever order the backend
\* found the regions of a raster in, the returned list is the same, sorted
\* top-to-bottom by topmost boundary pixel with left-to-right as tie-break.
C11_DetectorOrder ==
    pstate \in {"Annotating", "Completed"} =>
        /\ \A i \in DOMAIN components : components[i].id = i
        /\ \A i, j \in DOMAIN components :
              i < j => RasterBefore(components[i].box, components[j].box)
        /\ \A found \in FoundLists(MaxComponents) :
              {found[i] : i \in DOMAIN found} = Regions(components) =>
                  DetectComponents(found) = components

\* two regions with the same topmost row were returned left to right
C11_Witness ==
    /\ pstate = "Annotating"
    /\ Len(components) = 2
    /\ components[1].box.y0 = components[2].box.y0
    /\ components[1].box.x0 < components[2].box.x0

IsLabelElem(e) ==
    \/ e.tag = "text"
    \/ e.tag = "path" /\ "class" \in DOMAIN e /\ e.class = "leader"

Merged == pstate = "Annotating" /\ pstate' = "Completed"

\* C12: annotation only appends to the SVG: after the merge the original
\* elements are all present, in their order, with unchanged path data and
\* attributes, and the only difference between the input and the output tree
\* is the appended label text and leader-line elements.
C12_MergeAppendsOnly ==
    [][Merged =>
          LET n == Len(svg.children)
              m == Len(svg'.children)
          IN  /\ [svg' EXCEPT !.children = svg.children] = svg
              /\ m >= n
              /\ SubSeq(svg'.children, 1, n) = svg.children
              /\ \A k \in (n + 1)..m : IsLabelElem(svg'.children[k])
              /\ Cardinality({k \in (n + 1)..m : svg'.children[k].tag = "text"})
                    = Len(labels)]_vars

\* a traced path is followed by a label and its leader line
C12_Witness ==
    /\ pstate = "Completed"
    /\ Len(labels) = 1
    /\ Len(svg.children) = 3
    /\ svg.children[1].tag = "path"
    /\ svg.children[1].fill = "black"
    /\ svg.children[2].tag = "text"
    /\ svg.children[3].class = "leader"

FullPath ==
    <<"Started", "Synthesizing", "Vectorizing", "Detecting", "Annotating", "Completed">>

C13_Run ==
    (kwargs.entry = "process_sketch" /\ pstate = "Completed" /\ components = <<>>) =>
        /\ labels = <<>>
        /\ hist = FullPath
        /\ (response # NoValue /\ response.status = 200) =>
              /\ response.body.components = <<>>
              /\ response.body.labels = <<>>
              /\ response.body.svg_content = svg

C13_Step ==
    kwargs.entry = "process_sketch" =>
        /\ (pstate = "Vectorizing" /\ pstate' = "Detecting") => svg' = result
        /\ (pstate = "Detecting" /\ pstate' # pstate) =>
              pstate' = "Annotating" /\ svg' = svg
        /\ (pstate = "Annotating" /\ components = <<>> /\ pstate' # pstate) =>
              /\ pstate' = "Completed"
              /\ components' = <<>>
              /\ labels' = <<>>
              /\ svg' = svg

\* C13: a detection that yields zero components does not abort the run: it
\* goes through Annotating to Completed with an empty component list and an
\* empty label list, and the returned SVG is the Vectorizer's SVG.
C13_ZeroComponents == []C13_Run /\ [][C13_Step]_vars

\* a run without components was answered with the Vectorizer's one path
C13_Witness ==
    /\ request.endpoint = "generate"
    /\ pstate = "Completed"
    /\ components = <<>>
    /\ response # NoValue
    /\ response.status = 200
    /\ Len(response.body.svg_content.children) = 1
    /\ response.body.labels = <<>>

GenerationErrors == {"GenerationUnavailable", "GenerationTimeout"}

C14_Run ==
    /\ Len(sd_called) <= 1
    /\ \A k \in DOMAIN sd_called : sd_called[k] = SD_API_PROVIDER
    /\ failure # NoValue =>
          (failure.error \in GenerationErrors <=> failure.state = "Synthesizing")
    /\ (pstate = "Failed" /\ failure.state = "Synthesizing") =>
          /\ hist = <<"Started", "Synthesizing", "Failed">>
          /\ sd_called = <<SD_API_PROVIDER>>
          /\ diagram_image = NoValue
          /\ svg = NoValue
          /\ components = <<>>
          /\ labels = <<>>
          /\ pc = "idle"
          /\ pipeline_result = NoValue
          /\ response # NoValue => response.status = 500

\* C14: a failure of the configured image-generation backend is terminal for
\* the run: it ends in Failed with GenerationUnavailable or
\* GenerationTimeout, the other backend is never tried in the same run, and
\* no later stage is executed.
C14_GenerationFailureTerminal ==
    /\ []C14_Run
    /\ [][pstate = "Failed" => pstate' \in {"Failed", "None"}]_vars

\* the configured backend timed out and the request was answered with 500
C14_Witness ==
    /\ pstate = "Failed"
    /\ failure.error = "GenerationTimeout"
    /\ sd_called = <<SD_API_PROVIDER>>
    /\ response # NoValue
    /\ response.status = 500

PathCount(svg_content) ==
    LET es == Elems(svg_content.children)
    IN  Cardinality({k \in DOMAIN es : es[k].tag = "path"})

AllWhite(image) == image.ok /\ \A p \in DOMAIN image.lum : image.lum[p] = White

MalformedImage ==
    request.endpoint = "vectorize" /\ request.b64ok /\ ~request.image.ok

\* C16: in the vectorize-only entry point a malformed image is fatal and not
\* a degraded result: bitmap_to_svg raises before a temporary file is written
\* or a tracer started, no SVG, not even the placeholder, is returned, and the
\* caller receives a single error.
C16_MalformedImageFatal ==
    MalformedImage =>
        /\ pc \in {"idle", "open", "raised"}
        /\ pc = "raised" => exc = "UnidentifiedImageError"
        /\ tmpdir = "none"
        /\ files = {}
        /\ child = "none"
        /\ tracer_input = NoValue
        /\ result = NoValue
        /\ pstate # "Completed"
        /\ svg = NoValue
        /\ pipeline_result = NoValue
        /\ response # NoValue =>
              /\ response.status = 500
              /\ pstate = "Failed"
              /\ failure.error = "UnidentifiedImageError"

\* the malformed image was answered with one 500
C16_Witness ==
    /\ MalformedImage
    /\ hist = <<"Started", "Vectorizing", "Failed">>
    /\ response # NoValue
    /\ response.status = 500

FilledStrokeless(e) ==
    /\ e.tag = "path"
    /\ "fill" \in DOMAIN e
    /\ e.fill # "none"
    /\ "stroke" \in DOMAIN e
    /\ e.stroke = "none"

\* C20: every SVG the Vectorizer returns contains only filled, stroke-less
\* path elements: each child of the root is a path with a fill and stroke
\* "none", the placeholder has no children, and no other element kind is
\* emitted.
C20_OnlyFilledPaths ==
    pc = "returned" =>
        /\ result.markup = "literal" => result.children = <<>>
        /\ LET es == Elems(result.children)
           IN  \A k \in DOMAIN es : FilledStrokeless(es[k])

RECURSIVE Skeleton(_)
Skeleton(e) ==
    LET t1 == IF IsBlank(StrOf(e, "text")) THEN SetStr(e, "text", <<>>) ELSE e
        t2 == IF IsBlank(StrOf(t1, "tail")) THEN SetStr(t1, "tail", <<>>) ELSE t1
    IN  IF "children" \in DOMAIN e
        THEN [t2 EXCEPT !.children = [k \in DOMAIN e.children |-> Skeleton(e.children[k])]]
        ELSE t2

\* C19: the built-in optimizer is lossless: number, order and nesting of the
\* elements and every attribute value (path data, fill, stroke, the root's
\* width, height and viewBox) are unchanged; only whitespace-only text and
\* tail strings change, and text that is not whitespace is never overwritten.
C19_OptimizeLossless ==
    (~opt_scour /\ opt_out # <<>>) =>
        \A k \in DOMAIN opt_out :
            /\ Skeleton([opt_out[k] EXCEPT !.markup = opt_in.markup]) = Skeleton(opt_in)
            /\ opt_out[k].width = opt_in.width
            /\ opt_out[k].height = opt_in.height
            /\ opt_out[k].viewBox = opt_in.viewBox

\* a group kept its text while the root's whitespace became indentation
C19_Witness ==
    /\ ~opt_scour
    /\ opt_out # <<>>
    /\ StrOf(opt_in, "text") = <<" ">>
    /\ StrOf(opt_out[1], "text") = <<"\n", "  ">>
    /\ Len(opt_in.children) = 1
    /\ opt_in.children[1].tag = "g"
    /\ StrOf(opt_in.children[1], "text") = <<"t">>
    /\ StrOf(opt_out[1].children[1], "text") = <<"t">>

\* what a call returns when it runs alone
SoloResults(c) ==
    IF ~c.image.ok THEN {}
    ELSE LET bw == Binarize(c.image.lum, c.threshold, c.invert)
             w  == c.image.width
             h  == c.image.height
         IN  IF PYPOTRACE_AVAILABLE
             THEN {_path_to_svg(p, w, h) :
                      p \in TracedPaths([kind |-> "bitmap_array", data |-> NumpyBool(bw)],
                                        RequestPaths)}
             ELSE {_placeholder_svg(w, h)}
                  \cup {PotraceSvg(p, w, h) :
                           p \in TracedPaths([kind |-> "pbm", data |-> SavePbm(bw)],
                                             RequestPaths)}

\* what a call raises when it runs alone
SoloErrors(c) ==
    IF ~c.image.ok THEN {"UnidentifiedImageError"}
    ELSE IF PYPOTRACE_AVAILABLE THEN {"TracerError"} ELSE {}

InTmpDir(t) == calls[t].tmpdir # "none"

C17_Calls ==
    /\ \A t, u \in DOMAIN calls :
          (t # u /\ InTmpDir(t) /\ InTmpDir(u)) => calls[t].tmpdir # calls[u].tmpdir
    /\ DOMAIN tmpfs = {calls[t].tmpdir : t \in {u \in DOMAIN calls : InTmpDir(u)}}
    /\ \A t \in DOMAIN calls :
          /\ calls[t].pc = "returned" => calls[t].result \in SoloResults(calls[t])
          /\ calls[t].pc = "raised" => calls[t].exc \in SoloErrors(calls[t])
          /\ calls[t].pc \in {"run", "wait", "read"} =>
                tmpfs[calls[t].tmpdir]["input.pbm"] = PbmFile(calls[t])

\* C17: concurrent calls on the shared vectorizer do not interfere: no call
\* writes default_params or PYPOTRACE_AVAILABLE, every call uses its own
\* temporary directory, and under any interleaving each call returns what it
\* returns when run alone.
C17_NoInterference ==
    /\ []C17_Calls
    /\ [][/\ PYPOTRACE_AVAILABLE' = PYPOTRACE_AVAILABLE
          /\ default_params' = default_params]_vars

\* one call returned its own tracing while the other, on another image, was
\* still in its directory
C17_Witness ==
    /\ DOMAIN calls = Callers
    /\ calls["request_a"].pc = "returned"
    /\ calls["request_a"].result.markup = "potrace"
    /\ PathCount(calls["request_a"].result) = 1
    /\ calls["request_b"].pc = "read"
    /\ calls["request_b"].image.ok
    /\ calls["request_b"].image.lum # calls["request_a"].image.lum
    /\ PathCount(tmpfs[calls["request_b"].tmpdir]["output.svg"]) = 0

AnchorCalls == {k \in DOMAIN svc_calls : svc_calls[k] = "anchor_document"}

\* C21: blockchain_service.anchor_document is called only after the project
\* was found with payment_status 'paid'; a missing project yields 404, an
\* unpaid one 403, and in both cases no anchoring call is made.
C21_AnchorOnlyPaid ==
    web.endpoint = "anchor" =>
        /\ AnchorCalls # {} => web.project = "paid"
        /\ (handled.kind # "none" /\ web.project = "missing") =>
              /\ handled.kind = "raised"
              /\ handled.exc.cls = "HTTPException" /\ handled.exc.status = 404
              /\ svc_calls = <<>>
        /\ (handled.kind # "none" /\ web.project \in ProjectRows \ {"missing", "paid"}) =>
              /\ handled.kind = "raised"
              /\ handled.exc.cls = "HTTPException" /\ handled.exc.status = 403
              /\ svc_calls = <<>>

\* an unpaid project was refused
C21_Witness ==
    /\ web.endpoint = "anchor"
    /\ web.project = "pending"
    /\ handled.kind = "raised"
    /\ handled.exc.status = 403

\* C22: stripe_service.handle_webhook is called only when the
\* stripe-signature header is present; a request without it gets 400 and no
\* processing; an HTTPException raised during processing leaves the handler
\* with its own status, and any other exception (a class derived from
\* Exception) becomes a 500.
C22_WebhookSigned ==
    web.endpoint = "webhook" =>
        /\ svc_calls # <<>> => web.signature = "present"
        /\ (handled.kind # "none" /\ web.signature = "absent") =>
              /\ handled.kind = "raised"
              /\ handled.exc.cls = "HTTPException" /\ handled.exc.status = 400
              /\ svc_calls = <<>>
        /\ web.svc_exc.cls = "HTTPException" => handled.exc = web.svc_exc
        /\ (IsException(web.svc_exc) /\ web.svc_exc.cls # "HTTPException") =>
              handled.exc.cls = "HTTPException" /\ handled.exc.status = 500

\* the service refused a signed request with its own HTTPException
C22_Witness ==
    /\ web.endpoint = "webhook"
    /\ web.signature = "present"
    /\ svc_calls = <<"handle_webhook">>
    /\ web.svc_exc.cls = "HTTPException"
    /\ handled.exc.status = 400

\* C29: every call to POST /api/ai/refine is answered with status 501 and the
\* 'not yet implemented' detail.
C29_RefineNotImplemented ==
    (web.endpoint = "refine" /\ handled.kind # "none") =>
        /\ handled.kind = "raised"
        /\ handled.exc.cls = "HTTPException"
        /\ handled.exc.status = 501
        /\ handled.exc.detail = <<"Document refinement not yet implemented. ",
                                  "Provide document in request.">>

Called(op) == {k \in DOMAIN dblog : dblog[k].op = op}

Succeeded(op) == {k \in Called(op) : dblog[k].exc = NoExc}

Failed(op) == {k \in Called(op) : dblog[k].exc # NoExc}

\* the exception the handler or the commit raised, NoExc when neither did
RequestError ==
    IF handled.kind = "raised" THEN handled.exc
    ELSE IF Failed("commit") # {} THEN dblog[CHOOSE k \in Failed("commit") : TRUE].exc
    ELSE NoExc

ClosedLast ==
    web.pc = "done" =>
        /\ Called("close") # {}
        /\ \A k \in Called("commit") \cup Called("rollback") :
              \A j \in Called("close") : k < j

\* C30 as stated: the session is committed only after the handler finished
\* without raising; if the handler or the commit raises, the session is
\* rolled back and the same exception is re-raised; commit and rollback never
\* both succeed; the session is closed last in every case.
C30_SessionDiscipline ==
    /\ Called("commit") # {} => handled.kind = "returned"
    /\ (web.pc = "done" /\ RequestError # NoExc) =>
          /\ Succeeded("rollback") # {}
          /\ propagated = RequestError
    /\ ~(Succeeded("commit") # {} /\ Succeeded("rollback") # {})
    /\ ClosedLast

\* the exception that leaves get_db: the last one raised in it
Leaving ==
    IF Failed("close") # {} THEN Error("CloseError")
    ELSE IF Failed("rollback") # {} THEN Error("RollbackError")
    ELSE RequestError

\* C30 amended: rollback is called exactly for the exceptions derived from
\* Exception, and the same exception leaves get_db unless the rollback or
\* the closing fails, whose own exception then replaces it; an exception
\* not derived from Exception leaves get_db without a rollback.
C30_SessionDisciplineAmended ==
    /\ Called("commit") # {} => handled.kind = "returned"
    /\ web.pc = "done" =>
          /\ Called("rollback") # {} <=> IsException(RequestError)
          /\ RequestError = NoExc => Succeeded("commit") # {}
          /\ propagated = Leaving
    /\ ~(Succeeded("commit") # {} /\ Succeeded("rollback") # {})
    /\ ClosedLast

\* a failed commit was rolled back and its exception left get_db
C30_Witness ==
    /\ web.pc = "done"
    /\ handled.kind = "returned"
    /\ Failed("commit") # {}
    /\ Succeeded("rollback") # {}
    /\ propagated = Error("SQLAlchemyError")

\* C23: in the CLI backend output.svg is read only after a potrace run that
\* exited with status zero within the timeout; after a failed run (binary not
\* found, non-zero exit, timeout) the call returns exactly the placeholder,
\* with the input image's width, height and viewBox and no path element.
C23_FailedRunNeverRead ==
    /\ pc = "read" => (child = "exited" /\ "output.svg" \in files)
    /\ (pc = "returned" /\ result.markup = "potrace") => child = "exited"
    /\ (pc = "returned" /\ ~PYPOTRACE_AVAILABLE /\ child # "exited") =>
          /\ result = _placeholder_svg(args.image.width, args.image.height)
          /\ result.viewBox = <<0, 0, args.image.width, args.image.height>>
          /\ PathCount(result) = 0

\* a call on a two-pixel image got the placeholder after a non-zero exit
C23_Witness ==
    /\ pc = "returned"
    /\ child = "failed"
    /\ args.image.ok /\ args.image.width = 2
    /\ result.markup = "literal"

Corners(curve) == Cardinality({i \in DOMAIN curve : curve[i].is_corner})

Smooth(curve) == Cardinality({i \in DOMAIN curve : ~curve[i].is_corner})

\* where the commands of segment i begin in the data of its curve
RECURSIVE CommandAt(_, _)
CommandAt(curve, i) ==
    IF i = 1 THEN 2
    ELSE CommandAt(curve, i - 1) + (IF curve[i - 1].is_corner THEN 2 ELSE 1)

SegmentWritten(d, curve, i) ==
    LET at == CommandAt(curve, i)
    IN  IF curve[i].is_corner
        THEN /\ d[at] = [op |-> "L", pts |-> << <<i, "c">> >>]
             /\ d[at + 1] = [op |-> "L", pts |-> << <<i, "end_point">> >>]
        ELSE d[at] = [op |-> "C",
                      pts |-> << <<i, "c1">>, <<i, "c2">>, <<i, "end_point">> >>]

\* C24: the native backend emits one path element per traced curve, in curve
\* order; the data of a curve is M start, then per segment in order two L
\* commands (corner vertex, end point) for a corner and one C command (c1, c2,
\* end point) otherwise, then Z: 2k L and m C commands for k corner and m
\* smooth segments, which may be mixed.
C24_PerSegmentCommands ==
    path_svg # NoValue =>
        /\ Len(path_svg.children) = Len(traced)
        /\ \A k \in DOMAIN traced :
              LET d == path_svg.children[k].d
                  curve == traced[k]
              IN  /\ path_svg.children[k].tag = "path"
                  /\ Len(d) = 2 + 2 * Corners(curve) + Smooth(curve)
                  /\ d[1] = [op |-> "M", pts |-> << <<0, "start_point">> >>]
                  /\ d[Len(d)].op = "Z"
                  /\ CountOp(d, "L") = 2 * Corners(curve)
                  /\ CountOp(d, "C") = Smooth(curve)
                  /\ \A i \in DOMAIN curve : SegmentWritten(d, curve, i)

\* a curve whose first segment is smooth and whose second is a corner, after
\* another curve
C24_Witness ==
    /\ Len(traced) = 2
    /\ Len(traced[2]) = 2
    /\ ~traced[2][1].is_corner /\ traced[2][2].is_corner
    /\ CountOp(path_svg.children[2].d, "L") = 2
    /\ CountOp(path_svg.children[2].d, "C") = 1

InNative(p) == p \in {"native", "trace"}

InCli(p) == p \in {"cli", "run", "wait", "read"}

C25_Backend ==
    /\ InNative(pc) => PYPOTRACE_AVAILABLE
    /\ InCli(pc) => ~PYPOTRACE_AVAILABLE
    /\ tracer_input.kind = "bitmap_array" => PYPOTRACE_AVAILABLE
    /\ tracer_input.kind = "pbm" => ~PYPOTRACE_AVAILABLE
    /\ PYPOTRACE_AVAILABLE => (tmpdir = "none" /\ child = "none")

C25_Step ==
    /\ PYPOTRACE_AVAILABLE' = PYPOTRACE_AVAILABLE
    /\ ~(InNative(pc) /\ InCli(pc'))
    /\ ~(InCli(pc) /\ InNative(pc'))
    /\ pc = "raised" => pc' \in {"raised", "idle", "open"}

\* C25: each bitmap_to_svg call uses exactly one tracing backend, chosen once
\* at module import: the native one iff pypotrace was importable, otherwise
\* the CLI one; a failure of the chosen backend is never followed by an
\* attempt with the other backend in the same call.
C25_OneBackend == []C25_Backend /\ [][C25_Step]_vars

\* the native tracer failed and the call ended without a temporary directory
C25_Witness ==
    /\ PYPOTRACE_AVAILABLE
    /\ pc = "raised"
    /\ exc = "TracerError"
    /\ tmpdir = "none"

\* the parameters of a tracing request
TracingKeys == {"turnpolicy", "turdsize", "alphamax", "opttolerance"}

\* C26: both backends hand their tracer the service's fixed turn-policy,
\* minimum feature size and curve tolerance; every one of these that the
\* native tracer is passed is also passed explicitly on the potrace command
\* line.
C26_SameTracingRequest ==
    tracer_request # NoValue =>
        \A key \in TracingKeys \cap DOMAIN NativeRequest(default_params) :
            /\ key \in DOMAIN tracer_request
            /\ tracer_request[key] = default_params[key]

CliResult ==
    /\ pc = "returned"
    /\ result.markup \in {"potrace", "literal"}

TimeoutGivesPlaceholder ==
    child = ChildAfterTimeout =>
        /\ pc = "returned"
        /\ result = _placeholder_svg(args.image.width, args.image.height)

C28_DecodeFailureIs400 ==
    request # NoRequest =>
        /\ ~request.b64ok =>
              /\ response = Http(400, "Invalid base64 image")
              /\ kwargs = NoCall
              /\ hist = <<>>
              /\ sd_called = <<>>
              /\ VecIdle
        /\ (request.b64ok /\ pstate = "Failed" /\ response # NoValue) =>
              response.status = 500

\* an annotate request whose reference image does not decode was refused
C28_Witness ==
    /\ request # NoRequest
    /\ request.endpoint = "annotate"
    /\ ~request.b64ok
    /\ response.status = 400

====
